---- MODULE Spec2Model ----
(***************************************************************************)
(* Backfill task scheduler and execution engine of github-for-jira         *)
(* (src/src/sync/installation.ts): task selection, progress persistence,   *)
(* error handling, the deduplication guard around one attempt and the      *)
(* rescheduler.                                                            *)
(*                                                                         *)
(* Conventions: an absent cursor or date (undefined / null) is 0, real     *)
(* cursors and dates are positive integers; an absent status is "unset".   *)
(***************************************************************************)
EXTENDS Integers, Sequences, FiniteSets, Bags, TLC

VARIABLES
  fn,      \* the run's frame: the call under test of a function-level
           \* specification, the message of an engine run, the log of an
           \* end-to-end run
  sub,     \* the Subscription row of the installation
  rows,    \* its RepoSyncState rows: row id -> row
  marker,  \* the dedup markers set: key -> the worker holding it
  queue,   \* the backfill messages on the queue (a bag)
  wk,      \* each worker's position in processInstallation and its locals
  faults   \* upstream and Jira failures injected so far

vars == <<fn, sub, rows, marker, queue, wk, faults>>

(***************************************************************************)
(* Bounds of the model.                                                    *)
(***************************************************************************)
\* longest category filter drawn for getTargetTasks
MaxFilterLen == 3
\* most RepoSyncState rows drawn for one getNextTask call
MaxRows == 2
\* latest date drawn for commitsFromDate and a stored commitFrom
MaxDate == 2
\* repositories of the upstream organisation, one per discovery page
NumRepos == 1
\* pages of every category of a repository before the empty page
NumPages == 1
\* upstream and Jira failures injected in one run of the engine
MaxFaults == 1
\* most delays requested in one attempt
MaxDelays == 2

(***************************************************************************)
(* Task catalog.                                                           *)
(***************************************************************************)
\* the catalog with commit moved to the front
allTaskTypesCommitFirst == <<"commit", "pull", "branch", "build", "deployment">>

allTaskTypes == <<"pull", "branch", "commit", "build", "deployment">>

Range(s) == {s[i] : i \in 1..Len(s)}

TaskTypes == Range(allTaskTypes)

\* every TaskType of sync.types, the discovery step included
AnyTaskTypes == TaskTypes \cup {"repository"}

Statuses == {"unset", "pending", "complete", "failed"}

\* a task is outstanding when its status is falsy or "pending"
IsOutstanding(status) == status = "unset" \/ status = "pending"

\* lodash intersection(first, second): the values of `first`, in the order of
\* `first` and without repeats, that also occur in `second`
RECURSIVE intersectionFrom(_, _, _, _)
intersectionFrom(first, second, i, acc) ==
  IF i > Len(first) THEN acc
  ELSE IF first[i] \in Range(second) /\ first[i] \notin Range(acc)
       THEN intersectionFrom(first, second, i + 1, Append(acc, first[i]))
       ELSE intersectionFrom(first, second, i + 1, acc)

intersection(first, second) == intersectionFrom(first, second, 1, <<>>)

\* the argument order swapped: the filter's order wins
getTargetTasksSwapped(targetTasks) ==
  IF targetTasks.present /\ Len(targetTasks.items) > 0
  THEN intersection(targetTasks.items, allTaskTypes)
  ELSE allTaskTypes

\* targetTasks is [present, items]: present = FALSE is an absent filter
getTargetTasks(targetTasks) ==
  IF targetTasks.present /\ Len(targetTasks.items) > 0
  THEN intersection(allTaskTypes, targetTasks.items)
  ELSE allTaskTypes

getCursorKey(type) == type \o "Cursor"

getStatusKey(type) == type \o "Status"

AbsentFilter == [present |-> FALSE, items |-> <<>>]

FilterOf(items) == [present |-> TRUE, items |-> items]

(***************************************************************************)
(* Progress store records.                                                 *)
(***************************************************************************)
RowFields ==
  {"repoId", "repoUpdatedAt", "commitFrom"}
    \cup {getStatusKey(t) : t \in TaskTypes} \cup {getCursorKey(t) : t \in TaskTypes}

\* a RepoSyncState row as discovery creates it: nothing started
NewRow(repoId, repoUpdatedAt) ==
  [f \in RowFields |->
     IF f = "repoId" THEN repoId
     ELSE IF f = "repoUpdatedAt" THEN repoUpdatedAt
     ELSE IF f \in {getStatusKey(t) : t \in TaskTypes} THEN "unset"
     ELSE 0]

\* no Subscription row (never created, or destroyed)
NoSubscription ==
  [exists |-> FALSE, syncStatus |-> "PENDING", repositoryStatus |-> "unset",
   repositoryCursor |-> 0, backfillSince |-> 0]

\* a Subscription as created on installation
NewSubscription == [NoSubscription EXCEPT !.exists = TRUE]

(***************************************************************************)
(* The progress store's read for the selector:                             *)
(* RepoSyncState.findAllFromSubscription(subscription, {order: ...}).      *)
(* repoSyncStates is a function from row id to row.  The store returns the *)
(* rows in an order that agrees with the ORDER BY keys; rows the keys do   *)
(* not separate may come in any order.  Where the store places an absent   *)
(* repoUpdatedAt under DESC is the store's choice (nullsFirst).            *)
(***************************************************************************)
\* a's repoUpdatedAt sorts strictly before b's under DESC
UpdatedAtBefore(a, b, nullsFirst) ==
  IF a.repoUpdatedAt # 0 /\ b.repoUpdatedAt # 0 THEN a.repoUpdatedAt > b.repoUpdatedAt
  ELSE IF a.repoUpdatedAt = 0 /\ b.repoUpdatedAt # 0 THEN nullsFirst
  ELSE IF a.repoUpdatedAt # 0 /\ b.repoUpdatedAt = 0 THEN ~nullsFirst
  ELSE FALSE

\* ordering by repoUpdatedAt alone: rows with equal repoUpdatedAt are not separated
RankedBeforeNoId(repoSyncStates, i, j, nullsFirst) ==
  UpdatedAtBefore(repoSyncStates[i], repoSyncStates[j], nullsFirst)

\* order: [["repoUpdatedAt", "DESC"], ["id", "DESC"]]
RankedBefore(repoSyncStates, i, j, nullsFirst) ==
  \/ UpdatedAtBefore(repoSyncStates[i], repoSyncStates[j], nullsFirst)
  \/ /\ ~UpdatedAtBefore(repoSyncStates[j], repoSyncStates[i], nullsFirst)
     /\ i > j

Perms(S) ==
  {p \in [1..Cardinality(S) -> S] : \A a, b \in 1..Cardinality(S) : a # b => p[a] # p[b]}

\* every order in which the store may return the rows
findAllFromSubscription(repoSyncStates, nullsFirst) ==
  {p \in Perms(DOMAIN repoSyncStates) :
     \A a, b \in 1..Len(p) : a < b => ~RankedBefore(repoSyncStates, p[b], p[a], nullsFirst)}

(***************************************************************************)
(* Task selector.                                                          *)
(***************************************************************************)
NoTask == [some |-> FALSE, task |-> "none", repositoryId |-> 0, cursor |-> 0]

TaskOf(task, repositoryId, cursor) ==
  [some |-> TRUE, task |-> task, repositoryId |-> repositoryId, cursor |-> cursor]

\* a find that takes only never-started task types and passes over pending ones
RECURSIVE findTaskUnsetOnly(_, _, _)
findTaskUnsetOnly(tasks, row, i) ==
  IF i > Len(tasks) THEN 0
  ELSE IF row[getStatusKey(tasks[i])] = "unset" THEN i
  ELSE findTaskUnsetOnly(tasks, row, i + 1)

\* tasks.find(...): index of the first outstanding task type of the row, 0 if none
RECURSIVE findTask(_, _, _)
findTask(tasks, row, i) ==
  IF i > Len(tasks) THEN 0
  ELSE IF IsOutstanding(row[getStatusKey(tasks[i])]) THEN i
  ELSE findTask(tasks, row, i + 1)

\* the for loop over the returned rows
RECURSIVE scanRows(_, _, _, _)
scanRows(tasks, repoSyncStates, order, k) ==
  IF k > Len(order) THEN NoTask
  ELSE LET row == repoSyncStates[order[k]]
           i == findTask(tasks, row, 1)
       IN IF i = 0 THEN scanRows(tasks, repoSyncStates, order, k + 1)
          ELSE TaskOf(tasks[i], row.repoId, row[getCursorKey(tasks[i])])

\* discovery selected only while it was never started: a failed or pending
\* discovery falls through to the rows
getNextTaskUnsetOnly(subscription, repoSyncStates, targetTasks, nullsFirst) ==
  IF subscription.repositoryStatus = "unset"
  THEN {TaskOf("repository", 0, subscription.repositoryCursor)}
  ELSE {scanRows(getTargetTasks(targetTasks), repoSyncStates, order, 1) :
          order \in findAllFromSubscription(repoSyncStates, nullsFirst)}

\* the tasks getNextTask may return (one per order the store may return)
getNextTask(subscription, repoSyncStates, targetTasks, nullsFirst) ==
  IF subscription.repositoryStatus # "complete"
  THEN {TaskOf("repository", 0, subscription.repositoryCursor)}
  ELSE {scanRows(getTargetTasks(targetTasks), repoSyncStates, order, 1) :
          order \in findAllFromSubscription(repoSyncStates, nullsFirst)}

(***************************************************************************)
(* Workers.  Two workers consume the queue: every race of the engine is a  *)
(* race between two handlers.                                              *)
(***************************************************************************)
Workers == {1, 2}

\* a backfill message of the installation the engine's runs are about
Message(targetTasks, commitsFromDate) ==
  [installationId |-> 1, jiraHost |-> "h", gitHubAppId |-> 0,
   targetTasks |-> targetTasks, commitsFromDate |-> commitsFromDate]

NoMessage == Message(AbsentFilter, 0)

\* the key without the Jira host
DedupKeyWithoutHost(data) ==
  "i-" \o ToString(data.installationId) \o "-ghaid-"
    \o (IF data.gitHubAppId # 0 THEN ToString(data.gitHubAppId) ELSE "cloud")

\* `i-${installationId}-${jiraHost}-ghaid-${gitHubAppId || "cloud"}`; an absent
\* gitHubAppId is 0
DedupKey(data) ==
  "i-" \o ToString(data.installationId) \o "-" \o data.jiraHost \o "-ghaid-"
    \o (IF data.gitHubAppId # 0 THEN ToString(data.gitHubAppId) ELSE "cloud")

\* the marker store: no marker set, the holder of a key (0 if it is not set),
\* a key set, a key cleared
NoMarkers == [k \in {} |-> 0]

Holder(key) == IF key \in DOMAIN marker THEN marker[key] ELSE 0

MarkerSet(key, w) == [k \in DOMAIN marker \cup {key} |-> IF k = key THEN w ELSE marker[k]]

MarkerCleared(key) == [k \in DOMAIN marker \ {key} |-> marker[k]]

\* a worker outside processInstallation
IdleWorker ==
  [pc |-> "idle", data |-> NoMessage, nextTask |-> NoTask, edge |-> 0,
   subscription |-> NoSubscription, nextTaskDelaysMs |-> <<>>, result |-> "none",
   err |-> "none", sent |-> <<>>, found |-> 0, calls |-> 0, writes |-> {}]

\* the engine at rest, for the specifications of single functions
EngineAtRest ==
  /\ marker = NoMarkers
  /\ queue = EmptyBag
  /\ wk = [w \in Workers |-> IdleWorker]
  /\ faults = 0

(***************************************************************************)
(* getTargetTasks on drawn filters.                                        *)
(***************************************************************************)
SeqsUpTo(S, n) == UNION {[1..k -> S] : k \in 0..n}

TargetFilters == {AbsentFilter} \cup {FilterOf(f) : f \in SeqsUpTo(AnyTaskTypes, MaxFilterLen)}

InitTargets ==
  /\ fn \in {[op |-> "getTargetTasks", targetTasks |-> f, done |-> FALSE, out |-> <<>>] :
               f \in TargetFilters}
  /\ sub = NoSubscription
  /\ rows = <<>>
  /\ EngineAtRest

CallGetTargetTasks ==
  /\ fn.op = "getTargetTasks"
  /\ ~fn.done
  /\ fn' = [fn EXCEPT !.done = TRUE, !.out = getTargetTasks(fn.targetTasks)]
  /\ UNCHANGED <<sub, rows, marker, queue, wk, faults>>

NextTargets == CallGetTargetTasks

SpecTargets == InitTargets /\ [][NextTargets]_vars

\* position of a category in the fixed order
OrderIndex(t) == CHOOSE k \in 1..Len(allTaskTypes) : allTaskTypes[k] = t

\* the filter names no category at all (empty or absent)
NoFilter(targetTasks) == ~targetTasks.present \/ targetTasks.items = <<>>

\* C6: getTargetTasks returns exactly the fixed-order categories that occur in the
\* filter, each once and in the fixed order whatever the filter's order and
\* repeats, and the whole fixed order for an empty or absent filter.
GetTargetTasksIsOrderedIntersection ==
  fn.done =>
    IF NoFilter(fn.targetTasks) THEN fn.out = allTaskTypes
    ELSE /\ Range(fn.out) = TaskTypes \cap Range(fn.targetTasks.items)
         /\ \A a, b \in 1..Len(fn.out) :
              a < b => OrderIndex(fn.out[a]) < OrderIndex(fn.out[b])

\* a filter out of order and with a repeat has been reduced to the fixed order
GetTargetTasksReordered ==
  /\ fn.done
  /\ fn.targetTasks.present
  /\ fn.targetTasks.items = <<"deployment", "pull", "deployment">>
  /\ fn.out = <<"pull", "deployment">>

(***************************************************************************)
(* getNextTask on drawn subscriptions and RepoSyncState rows.              *)
(***************************************************************************)
\* a row whose categories all have status s, except category t with status st;
\* every started category keeps a cursor of its own
RowWith(s, t, st, repoUpdatedAt) ==
  [f \in RowFields |->
     IF f = "repoId" THEN 0
     ELSE IF f = "repoUpdatedAt" THEN repoUpdatedAt
     ELSE IF f = "commitFrom" THEN 0
     ELSE IF f = getStatusKey(t) THEN st
     ELSE IF f = getCursorKey(t) THEN (IF st = "unset" THEN 0 ELSE OrderIndex(t))
     ELSE IF f \in {getStatusKey(c) : c \in TaskTypes} THEN s
     ELSE IF s = "unset" THEN 0
     ELSE CHOOSE k \in 1..Len(allTaskTypes) : f = getCursorKey(allTaskTypes[k])]

UpdatedAts == {0, 1, 2}

\* rows drawn once discovery is complete: uniform rows, and complete rows with
\* the first, the middle or the last category of the fixed order in another status
DrawnRows ==
  {RowWith(s, "pull", s, u) : s \in Statuses, u \in UpdatedAts}
    \cup {RowWith("complete", t, st, u) :
            t \in {"pull", "commit", "deployment"}, st \in Statuses \ {"complete"},
            u \in UpdatedAts}

\* rows drawn while discovery is not complete
DrawnRowsInDiscovery == {RowWith(s, "pull", s, 1) : s \in Statuses}

\* repoId of the i-th row: not the row id, and in the opposite order
DrawnRepoId(i) == 2 * (MaxRows + 2 - i)

WithRepoIds(rs) == [i \in DOMAIN rs |-> [rs[i] EXCEPT !.repoId = DrawnRepoId(i)]]

SelectFilters ==
  {AbsentFilter, FilterOf(<<>>), FilterOf(<<"commit">>), FilterOf(<<"deployment", "branch">>)}

InitSelect ==
  /\ \E n \in 0..MaxRows :
       \/ /\ sub = [NewSubscription EXCEPT !.repositoryStatus = "complete"]
          /\ \E rs \in [1..n -> DrawnRows] : rows = WithRepoIds(rs)
       \/ /\ \E st \in Statuses \ {"complete"}, c \in 0..1 :
               sub = [NewSubscription EXCEPT !.repositoryStatus = st, !.repositoryCursor = c]
          /\ \E rs \in [1..n -> DrawnRowsInDiscovery] : rows = WithRepoIds(rs)
  /\ fn \in {[op |-> "getNextTask", targetTasks |-> f, nullsFirst |-> nf, done |-> FALSE,
              out |-> NoTask, again |-> NoTask] : f \in SelectFilters, nf \in BOOLEAN}
  /\ EngineAtRest

\* two calls of getNextTask on the same subscription and rows
CallGetNextTask ==
  /\ fn.op = "getNextTask"
  /\ ~fn.done
  /\ \E t1, t2 \in getNextTask(sub, rows, fn.targetTasks, fn.nullsFirst) :
       fn' = [fn EXCEPT !.done = TRUE, !.out = t1, !.again = t2]
  /\ UNCHANGED <<sub, rows, marker, queue, wk, faults>>

NextSelect == CallGetNextTask

SpecSelect == InitSelect /\ [][NextSelect]_vars

\* the in-filter categories of row i that are unset or pending
OpenTasks(i, targetTasks) ==
  {t \in TaskTypes :
     /\ NoFilter(targetTasks) \/ t \in Range(targetTasks.items)
     /\ rows[i][getStatusKey(t)] \in {"unset", "pending"}}

\* C3: while repositoryStatus is not complete, getNextTask returns the discovery
\* task with the stored repositoryCursor, whatever the filter and the rows.
DiscoveryFirst ==
  (fn.op = "getNextTask" /\ fn.done /\ sub.repositoryStatus # "complete") =>
    /\ fn.out = TaskOf("repository", 0, sub.repositoryCursor)
    /\ fn.again = fn.out

\* discovery was marked failed, a row has work, and the discovery task came back
DiscoveryFirstReached ==
  /\ fn.op = "getNextTask" /\ fn.done
  /\ sub.repositoryStatus = "failed" /\ sub.repositoryCursor = 1
  /\ \E i \in DOMAIN rows : OpenTasks(i, fn.targetTasks) # {}
  /\ fn.out.task = "repository" /\ fn.out.cursor = 1

\* C4: with discovery complete, getNextTask returns, for the first row in rank
\* order with an open in-filter category, that row's earliest open category in
\* the fixed order with its stored cursor; it returns none exactly when no row
\* has an open in-filter category.
FirstOpenTaskOfFirstRankedRow ==
  (fn.op = "getNextTask" /\ fn.done /\ sub.repositoryStatus = "complete") =>
    IF \A i \in DOMAIN rows : OpenTasks(i, fn.targetTasks) = {}
    THEN fn.out = NoTask
    ELSE \E i \in DOMAIN rows :
           /\ OpenTasks(i, fn.targetTasks) # {}
           /\ \A j \in DOMAIN rows \ {i} :
                OpenTasks(j, fn.targetTasks) # {} => RankedBefore(rows, i, j, fn.nullsFirst)
           /\ fn.out.some
           /\ fn.out.repositoryId = rows[i].repoId
           /\ fn.out.task \in OpenTasks(i, fn.targetTasks)
           /\ \A t \in OpenTasks(i, fn.targetTasks) : OrderIndex(fn.out.task) <= OrderIndex(t)
           /\ fn.out.cursor = rows[i][getCursorKey(fn.out.task)]

\* the first ranked row has only out-of-filter work and is passed over; the next
\* row's pending category is returned with its cursor
SecondRowSelected ==
  /\ fn.op = "getNextTask" /\ fn.done /\ sub.repositoryStatus = "complete"
  /\ fn.targetTasks = FilterOf(<<"deployment", "branch">>)
  /\ DOMAIN rows = {1, 2}
  /\ OpenTasks(2, fn.targetTasks) = {}
  /\ rows[2]["commitStatus"] = "unset"
  /\ rows[1]["pullStatus"] = "pending" /\ rows[1]["deploymentStatus"] = "pending"
  /\ fn.out = TaskOf("branch", rows[1].repoId, 2)

\* C5: two getNextTask calls on the same subscription and rows return the same
\* task, and a row with open work is never chosen while a row with open work has
\* a later repoUpdatedAt, or the same or equally absent repoUpdatedAt and a
\* larger id.
DeterministicRanking ==
  (fn.op = "getNextTask" /\ fn.done) =>
    /\ fn.out = fn.again
    /\ sub.repositoryStatus = "complete" =>
         \A i, j \in DOMAIN rows :
           ( /\ OpenTasks(i, fn.targetTasks) # {}
             /\ OpenTasks(j, fn.targetTasks) # {}
             /\ \/ rows[j].repoUpdatedAt = rows[i].repoUpdatedAt /\ j > i
                \/ /\ rows[i].repoUpdatedAt # 0
                   /\ rows[j].repoUpdatedAt > rows[i].repoUpdatedAt )
           => fn.out.repositoryId # rows[i].repoId

\* two rows without repoUpdatedAt both have open work: the larger id was chosen
TieBrokenById ==
  /\ fn.op = "getNextTask" /\ fn.done /\ sub.repositoryStatus = "complete"
  /\ DOMAIN rows = {1, 2}
  /\ rows[1].repoUpdatedAt = 0 /\ rows[2].repoUpdatedAt = 0
  /\ OpenTasks(1, fn.targetTasks) # {} /\ OpenTasks(2, fn.targetTasks) # {}
  /\ fn.out.repositoryId = rows[2].repoId

(***************************************************************************)
(* Progress store writes.  A set of named fields is a function from field  *)
(* name to value.                                                          *)
(***************************************************************************)
Merge(record, values) ==
  [f \in DOMAIN record |-> IF f \in DOMAIN values THEN values[f] ELSE record[f]]

Pick(values, keys) == [f \in DOMAIN values \cap keys |-> values[f]]

Omit(values, keys) == [f \in DOMAIN values \ keys |-> values[f]]

\* subscription.update(values) as the database sees it: the row of a destroyed
\* subscription is gone and the UPDATE changes nothing
subscriptionUpdate(subscription, values) ==
  IF subscription.exists THEN Merge(subscription, values) ELSE subscription

\* RepoSyncState.updateRepoFromSubscription(subscription, repoId, values)
updateRepoFromSubscription(repoSyncStates, repoId, values) ==
  [i \in DOMAIN repoSyncStates |->
     IF repoSyncStates[i].repoId = repoId THEN Merge(repoSyncStates[i], values)
     ELSE repoSyncStates[i]]

\* the fields updateRepo routes to the Subscription
SubscriptionRepoStateFields == {"repositoryStatus", "repositoryCursor"}

\* updateRepo(subscription, repoId, values) on the store st = [sub, rows]
updateRepo(st, repoId, values) ==
  LET subscriptionRepoStateValues == Pick(values, SubscriptionRepoStateFields)
      repoSyncStateValues == Omit(values, SubscriptionRepoStateFields)
  IN [sub |-> IF DOMAIN subscriptionRepoStateValues # {}
              THEN subscriptionUpdate(st.sub, subscriptionRepoStateValues)
              ELSE st.sub,
      rows |-> IF DOMAIN repoSyncStateValues # {}
               THEN updateRepoFromSubscription(st.rows, repoId, repoSyncStateValues)
               ELSE st.rows]

\* RepoSyncState.findByRepoId(subscription, repoId): the ids of the rows found
findByRepoId(repoSyncStates, repoId) ==
  {i \in DOMAIN repoSyncStates : repoSyncStates[i].repoId = repoId}

\* getBackfillSince(data): the message's commitsFromDate as a date, null if absent
getBackfillSince(data) == data.commitsFromDate

\* where the store of the engine places an absent repoUpdatedAt (discovery always
\* stores one, so no engine row lacks it)
StoreNullsFirst == TRUE

(***************************************************************************)
(* updateTaskStatusAndContinue, in the steps between its store accesses.    *)
(* edge is the cursor of the last edge of the result, 0 for no edges.       *)
(***************************************************************************)
\* the commit floor is overwritten whenever the message carries one
updateRepoSyncFieldsAlways(st, data, task, repositoryId, edge) ==
  LET isComplete == edge = 0
      status == IF isComplete THEN "complete" ELSE "pending"
  IN IF isComplete /\ task = "commit" /\ data.commitsFromDate # 0
     THEN (getStatusKey(task) :> status) @@ ("commitFrom" :> data.commitsFromDate)
     ELSE (getStatusKey(task) :> status)

\* updateRepoSyncFields as built before the first updateRepo
updateRepoSyncFields(st, data, task, repositoryId, edge) ==
  LET isComplete == edge = 0
      status == IF isComplete THEN "complete" ELSE "pending"
      repoSync == findByRepoId(st.rows, repositoryId)
  IN IF /\ isComplete /\ task = "commit" /\ data.commitsFromDate # 0
        /\ \E i \in repoSync :
             \/ st.rows[i].commitFrom = 0
             \/ st.rows[i].commitFrom > data.commitsFromDate
     THEN (getStatusKey(task) :> status) @@ ("commitFrom" :> data.commitsFromDate)
     ELSE (getStatusKey(task) :> status)

\* the store after the first updateRepo: the status, and the lowered commit floor
StoreAfterStatus(st, data, task, repositoryId, edge) ==
  updateRepo(st, repositoryId, updateRepoSyncFields(st, data, task, repositoryId, edge))

\* the cursor of the last edge written to every category of the row
StoreAfterCursorEveryTask(st, task, repositoryId, edge) ==
  updateRepo(st, repositoryId, [k \in {getCursorKey(t) : t \in TaskTypes} |-> edge])

\* the second updateRepo is left out: the cursor stays where it was
StoreAfterCursorUnmoved(st, task, repositoryId, edge) == st

\* the store after the second updateRepo: the cursor of the last edge
StoreAfterCursor(st, task, repositoryId, edge) ==
  updateRepo(st, repositoryId, getCursorKey(task) :> edge)

\* a completed task always asks for a follow-up, work left or not
ContinuationsAlwaysFollowUp(subscription, st, data) ==
  {[sub |-> st.sub, delays |-> <<0>>]}

\* the continuation of a completed task: `subscription` is the instance fetched
\* at the start of the update, st the store now.  Each result is the Subscription
\* row afterwards and the delays requested.
Continuations(subscription, st, data) ==
  {IF ~t.some
   THEN [sub |-> subscriptionUpdate(st.sub,
                   [syncStatus |-> "COMPLETE", backfillSince |-> getBackfillSince(data)]),
         delays |-> <<>>]
   ELSE [sub |-> st.sub, delays |-> <<0>>] :
     t \in getNextTask(subscription, st.rows, data.targetTasks, StoreNullsFirst)}

\* a task found complete already is left alone: no write and no continuation
updateTaskStatusAndContinueSkipDone(st, data, task, repositoryId, edge) ==
  IF ~st.sub.exists THEN {[sub |-> st.sub, rows |-> st.rows, delays |-> <<>>]}
  ELSE IF /\ edge = 0
          /\ \/ task = "repository" /\ st.sub.repositoryStatus = "complete"
             \/ /\ task # "repository"
                /\ \E i \in findByRepoId(st.rows, repositoryId) :
                     st.rows[i][getStatusKey(task)] = "complete"
  THEN {[sub |-> st.sub, rows |-> st.rows, delays |-> <<>>]}
  ELSE LET st1 == StoreAfterStatus(st, data, task, repositoryId, edge)
       IN IF edge # 0
          THEN LET st2 == StoreAfterCursor(st1, task, repositoryId, edge)
               IN {[sub |-> st2.sub, rows |-> st2.rows, delays |-> <<0>>]}
          ELSE {[sub |-> c.sub, rows |-> st1.rows, delays |-> c.delays] :
                  c \in Continuations(st1.sub, st1, data)}

\* updateTaskStatusAndContinue run without interruption on the store st: each
\* result is the store afterwards and the delays requested
updateTaskStatusAndContinue(st, data, task, repositoryId, edge) ==
  IF ~st.sub.exists THEN {[sub |-> st.sub, rows |-> st.rows, delays |-> <<>>]}
  ELSE LET st1 == StoreAfterStatus(st, data, task, repositoryId, edge)
       IN IF edge # 0
          THEN LET st2 == StoreAfterCursor(st1, task, repositoryId, edge)
               IN {[sub |-> st2.sub, rows |-> st2.rows, delays |-> <<0>>]}
          ELSE {[sub |-> c.sub, rows |-> st1.rows, delays |-> c.delays] :
                  c \in Continuations(st1.sub, st1, data)}

(***************************************************************************)
(* updateTaskStatusAndContinue on a drawn store and drawn arguments, then   *)
(* replayed with the same arguments.                                       *)
(***************************************************************************)
Dates == 0..MaxDate

\* the row the update is aimed at: commit in any status over unset or complete
\* categories, with any stored commit floor
DrawnTargetRows ==
  {[RowWith(s, "commit", st, 1) EXCEPT !.commitFrom = d, !.repoId = DrawnRepoId(1)] :
     s \in {"unset", "complete"}, st \in Statuses, d \in Dates}

\* another row of the subscription, with or without work left
DrawnOtherRows ==
  {[RowWith(s, "pull", s, 1) EXCEPT !.repoId = DrawnRepoId(2)] : s \in {"unset", "complete"}}

UpdateFilters == {AbsentFilter, FilterOf(<<"commit">>), FilterOf(<<"pull">>)}

UpdateCalls ==
  {[op |-> "updateTaskStatusAndContinue", phase |-> "drawn",
    data |-> [targetTasks |-> f, commitsFromDate |-> d],
    task |-> t, repositoryId |-> (IF t = "repository" THEN 0 ELSE DrawnRepoId(1)),
    edge |-> e, before |-> <<>>, first |-> <<>>, delays |-> <<>>] :
     f \in UpdateFilters, d \in Dates, t \in {"repository", "commit", "deployment"},
     e \in 0..1}

InitUpdate ==
  /\ fn \in UpdateCalls
  /\ \/ sub = NoSubscription
     \/ \E st \in {"pending", "complete"} :
          sub = [NewSubscription EXCEPT !.repositoryStatus = st, !.syncStatus = "ACTIVE"]
  /\ \E target \in DrawnTargetRows, other \in DrawnOtherRows : rows = <<target, other>>
  /\ EngineAtRest

\* the first call: the store before it is kept in fn.before
CallUpdate ==
  /\ fn.op = "updateTaskStatusAndContinue" /\ fn.phase = "drawn"
  /\ \E r \in updateTaskStatusAndContinue([sub |-> sub, rows |-> rows], fn.data, fn.task,
                                          fn.repositoryId, fn.edge) :
       /\ sub' = r.sub
       /\ rows' = r.rows
       /\ fn' = [fn EXCEPT !.phase = "called", !.delays = r.delays,
                           !.before = [sub |-> sub, rows |-> rows]]
  /\ UNCHANGED <<marker, queue, wk, faults>>

\* the replay: the store after the first call is kept in fn.first
ReplayUpdate ==
  /\ fn.op = "updateTaskStatusAndContinue" /\ fn.phase = "called"
  /\ \E r \in updateTaskStatusAndContinue([sub |-> sub, rows |-> rows], fn.data, fn.task,
                                          fn.repositoryId, fn.edge) :
       /\ sub' = r.sub
       /\ rows' = r.rows
       /\ fn' = [fn EXCEPT !.phase = "replayed", !.delays = r.delays,
                           !.first = [sub |-> sub, rows |-> rows, delays |-> fn.delays]]
  /\ UNCHANGED <<marker, queue, wk, faults>>

\* instead of the replay, a later attempt on the same task whose message carries
\* another commitsFromDate
CallUpdateAgain ==
  /\ fn.op = "updateTaskStatusAndContinue" /\ fn.phase = "called"
  /\ \E d \in Dates, e \in 0..1 :
       \E r \in updateTaskStatusAndContinue([sub |-> sub, rows |-> rows],
                    [fn.data EXCEPT !.commitsFromDate = d], fn.task, fn.repositoryId, e) :
         /\ sub' = r.sub
         /\ rows' = r.rows
         /\ fn' = [fn EXCEPT !.phase = "again", !.delays = r.delays, !.edge = e,
                             !.data.commitsFromDate = d,
                             !.first = [sub |-> sub, rows |-> rows, delays |-> fn.delays]]
  /\ UNCHANGED <<marker, queue, wk, faults>>

NextUpdate == CallUpdate \/ ReplayUpdate \/ CallUpdateAgain

SpecUpdate == InitUpdate /\ [][NextUpdate]_vars

\* C9: no update moves a stored commitFrom to a later date: each step leaves it
\* as it was, sets it when it was unset, or replaces it by a strictly earlier date.
CommitFromNeverLater ==
  [][\A i \in DOMAIN rows :
       \/ rows'[i].commitFrom = rows[i].commitFrom
       \/ rows[i].commitFrom = 0
       \/ rows'[i].commitFrom # 0 /\ rows'[i].commitFrom < rows[i].commitFrom]_vars

\* a completed commit page set an unset floor to 2, and a later completion whose
\* message carried 1 lowered it to 1
CommitFromLowered ==
  /\ fn.op = "updateTaskStatusAndContinue" /\ fn.phase = "again"
  /\ fn.task = "commit" /\ fn.edge = 0 /\ fn.data.commitsFromDate = 1
  /\ fn.before.rows[1].commitFrom = 0
  /\ fn.first.rows[1].commitFrom = 2
  /\ rows[1].commitFrom = 1

\* the status, cursor and commit floor a task has in the store st
TaskProgress(st, task, repositoryId) ==
  IF task = "repository"
  THEN <<st.sub.repositoryStatus, st.sub.repositoryCursor>>
  ELSE {<<st.rows[i][getStatusKey(task)], st.rows[i][getCursorKey(task)],
          st.rows[i].commitFrom>> : i \in findByRepoId(st.rows, repositoryId)}

\* C10: replaying updateTaskStatusAndContinue with the same empty result and the
\* same message on the task it completed leaves the task's status, cursor and
\* commitFrom as the first call left them, and decides the continuation as the
\* first call did: a follow-up with delay 0 if the selector still returns a task,
\* syncStatus COMPLETE and no follow-up otherwise.
ReplayIsNoOp ==
  ( /\ fn.op = "updateTaskStatusAndContinue" /\ fn.phase = "replayed"
    /\ fn.edge = 0 /\ sub.exists ) =>
    /\ TaskProgress([sub |-> sub, rows |-> rows], fn.task, fn.repositoryId)
         = TaskProgress(fn.first, fn.task, fn.repositoryId)
    /\ fn.delays = fn.first.delays
    /\ IF \E t \in getNextTask(sub, rows, fn.data.targetTasks, StoreNullsFirst) : t.some
       THEN fn.delays = <<0>>
       ELSE fn.delays = <<>> /\ sub.syncStatus = "COMPLETE"

\* a commit completion that lowered the floor from 2 to 1 was replayed while
\* another row still had work: the floor stayed at 1 and a follow-up was requested
ReplayedCommitCompletion ==
  /\ fn.op = "updateTaskStatusAndContinue" /\ fn.phase = "replayed"
  /\ fn.task = "commit" /\ fn.edge = 0 /\ fn.data.commitsFromDate = 1 /\ sub.exists
  /\ fn.before.rows[1].commitFrom = 2
  /\ fn.first.rows[1].commitFrom = 1 /\ rows[1].commitFrom = 1
  /\ rows[1]["commitStatus"] = "complete"
  /\ fn.delays = <<0>>

\* C23: after updateTaskStatusAndContinue on an existing subscription the task's
\* status is complete exactly when the result had no edges and pending
\* otherwise, and when pending the stored cursor is the cursor of the last edge
StatusFollowsEdges ==
  ( /\ fn.op = "updateTaskStatusAndContinue" /\ fn.phase = "called"
    /\ fn.before.sub.exists ) =>
    LET progress == TaskProgress([sub |-> sub, rows |-> rows], fn.task, fn.repositoryId)
        found == IF fn.task = "repository" THEN {progress} ELSE progress
    IN /\ found # {}
       /\ \A p \in found :
            /\ p[1] = "complete" <=> fn.edge = 0
            /\ p[1] = "pending" <=> fn.edge # 0
            /\ fn.edge # 0 => p[2] = fn.edge

\* a page of commits with edges came for a commit task that had failed with
\* another cursor stored: the task is pending at the cursor of the last edge
FailedCommitPendingAtLastEdge ==
  /\ fn.op = "updateTaskStatusAndContinue" /\ fn.phase = "called"
  /\ fn.task = "commit" /\ fn.edge = 1
  /\ fn.before.sub.exists
  /\ fn.before.rows[1]["commitStatus"] = "failed"
  /\ fn.before.rows[1]["commitCursor"] # 1
  /\ rows[1]["commitStatus"] = "pending" /\ rows[1]["commitCursor"] = 1

\* the selector has a task to return for the filter: discovery is not complete,
\* or a row has an in-filter category unset or pending
WorkLeft(targetTasks) ==
  \/ sub.repositoryStatus # "complete"
  \/ \E i \in DOMAIN rows : OpenTasks(i, targetTasks) # {}

\* C25: after a progress update on an existing subscription exactly one
\* follow-up, with delay 0, is requested if the result had edges or the selector
\* still has a task to return; none is requested when the result was empty and
\* the selector has none
FollowUpWhileWorkLeft ==
  ( /\ fn.op = "updateTaskStatusAndContinue" /\ fn.phase = "called"
    /\ fn.before.sub.exists ) =>
    fn.delays = IF fn.edge # 0 \/ WorkLeft(fn.data.targetTasks) THEN <<0>> ELSE <<>>

\* the last page of the commits of one repository came while the pull requests
\* of another were not started: one follow-up at once
FollowUpForAnotherRow ==
  /\ fn.op = "updateTaskStatusAndContinue" /\ fn.phase = "called"
  /\ fn.before.sub.exists /\ sub.repositoryStatus = "complete"
  /\ fn.task = "commit" /\ fn.edge = 0 /\ fn.data.targetTasks = FilterOf(<<"pull">>)
  /\ OpenTasks(1, fn.data.targetTasks) = {}
  /\ OpenTasks(2, fn.data.targetTasks) = {"pull"}
  /\ fn.delays = <<0>>

(***************************************************************************)
(* The deduplication guard (./deduplicator), from the specification's      *)
(* protocol: the marker is set atomically if it is not set, the attempt    *)
(* runs, and the marker is cleared on every exit of the attempt.  A marker *)
(* found set gives E_NOT_SURE_TRY_AGAIN_LATER while it is within the grace *)
(* threshold and E_OTHER_WORKER_DOING_THIS_JOB after it; an unreachable    *)
(* store gives E_NOT_SURE_TRY_AGAIN_LATER.                                 *)
(***************************************************************************)
\* an unreachable store is taken for a clear marker
executeWithDeduplicationOptimistic(held, storeReachable, withinGrace) ==
  IF held # 0 /\ storeReachable
  THEN (IF withinGrace THEN "E_NOT_SURE_TRY_AGAIN_LATER"
        ELSE "E_OTHER_WORKER_DOING_THIS_JOB")
  ELSE "E_OK"

executeWithDeduplication(held, storeReachable, withinGrace) ==
  IF ~storeReachable THEN "E_NOT_SURE_TRY_AGAIN_LATER"
  ELSE IF held # 0
       THEN (IF withinGrace THEN "E_NOT_SURE_TRY_AGAIN_LATER"
             ELSE "E_OTHER_WORKER_DOING_THIS_JOB")
       ELSE "E_OK"

(***************************************************************************)
(* Upstream, as the task processors see it (./discovery, ./commits, ...):  *)
(* a processor returns the page after the cursor it is given, and no edges *)
(* after the last page.  Discovery stores a row for every repository of    *)
(* the page it fetched.                                                    *)
(***************************************************************************)
\* repoId of the k-th repository upstream lists
UpstreamRepoId(k) == 2 * (NumRepos + 1 - k)

\* upstream with a page to fetch for every repository and category, and upstream
\* with nothing to fetch: every processor finishes in its first call
Upstream == [repos |-> NumRepos, pages |-> NumPages]
NothingUpstream == [repos |-> 0, pages |-> 0]

\* cursor of the last edge of the page after `cursor`, 0 when there is none
NextPage(upstream, task, cursor) ==
  IF cursor < (IF task = "repository" THEN upstream.repos ELSE upstream.pages)
  THEN cursor + 1 ELSE 0

\* the rows after discovery fetched the page after `cursor`
RowsAfterDiscovery(upstream, repoSyncStates, cursor) ==
  IF cursor < upstream.repos /\ findByRepoId(repoSyncStates, UpstreamRepoId(cursor + 1)) = {}
  THEN Append(repoSyncStates, NewRow(UpstreamRepoId(cursor + 1), 1))
  ELSE repoSyncStates

(***************************************************************************)
(* maybeScheduleNextTask.                                                  *)
(***************************************************************************)
\* String(n): the decimal digits of n
RECURSIVE Digits(_)
Digits(n) == IF n < 10 THEN <<n>> ELSE Append(Digits(n \div 10), n % 10)

\* a sorts before b as strings
RECURSIVE StringBefore(_, _)
StringBefore(a, b) ==
  IF a = <<>> THEN b # <<>>
  ELSE IF b = <<>> THEN FALSE
  ELSE IF Head(a) # Head(b) THEN Head(a) < Head(b)
  ELSE StringBefore(Tail(a), Tail(b))

\* nextTaskDelaysMs.sort().reverse() then shift(): Array.prototype.sort without
\* a comparator orders by the elements' strings, so the element taken is the one
\* whose string sorts last
ShiftAfterSortReverse(nextTaskDelaysMs) ==
  CHOOSE d \in Range(nextTaskDelaysMs) :
    \A e \in Range(nextTaskDelaysMs) : ~StringBefore(Digits(d), Digits(e))

\* the seconds rounded down
FloorSeconds(delayMs) == delayMs \div 1000

\* Math.ceil(delayMs / 1000)
CeilSeconds(delayMs) == (delayMs + 999) \div 1000

\* no follow-up is ever sent
maybeScheduleNextTaskNever(nextTaskDelaysMs) == <<>>

\* the delays (seconds) of the messages maybeScheduleNextTask sends
maybeScheduleNextTask(nextTaskDelaysMs) ==
  IF Len(nextTaskDelaysMs) > 0
  THEN <<CeilSeconds(ShiftAfterSortReverse(nextTaskDelaysMs))>>
  ELSE <<>>

(***************************************************************************)
(* handleBackfillError.                                                    *)
(***************************************************************************)
\* the errors an attempt can meet: the upstream client's rate-limit error, its
\* other errors by status, and any other error (Jira's included)
ErrorKinds ==
  {"RateLimitingError", "GithubClientError404", "GithubClientGraphQLErrorNotFound",
   "GithubClientError500", "Error"}

\* err instanceof GithubClientError
IsGithubClientError(err) ==
  err \in {"GithubClientError404", "GithubClientGraphQLErrorNotFound", "GithubClientError500"}

\* isNotFoundGithubError(err) is curried: the call returns the inner function
\* without calling it, and a function is truthy whatever err.status is
isNotFoundGithubError(err) == TRUE

\* no GithubClientError is taken for not-found
handleBackfillErrorNoNotFound(err) ==
  IF err = "RateLimitingError" THEN "delay" ELSE "rethrow"

\* every error but a rate limit completes the task
handleBackfillErrorSwallowsUnknown(err) ==
  IF err = "RateLimitingError" THEN "delay" ELSE "complete"

\* what handleBackfillError does with err: "delay" a follow-up, "complete" the
\* task as if no edges had come, or "rethrow" a TaskError
handleBackfillError(err) ==
  IF err = "RateLimitingError" THEN "delay"
  ELSE IF IsGithubClientError(err) /\ isNotFoundGithubError(err) THEN "complete"
  ELSE "rethrow"

\* the difference without the floor of 0
RateLimitDelayMsUnfloored(rateLimitReset, now) == rateLimitReset * 1000 - now

\* Math.max(err.rateLimitReset * 1000 - Date.now(), 0)
RateLimitDelayMs(rateLimitReset, now) ==
  IF rateLimitReset * 1000 - now > 0 THEN rateLimitReset * 1000 - now ELSE 0

\* new TaskError(nextTask, err): the task is cloned
TaskError(nextTask, err) == [name |-> "TaskError", task |-> nextTask, cause |-> err]

NotThrown == [name |-> "none"]

\* handleBackfillError run without interruption on the store st: each result is
\* the store afterwards, the delays requested and what is thrown
handleBackfillErrorOnStore(st, err, data, nextTask, rateLimitReset, now) ==
  CASE handleBackfillError(err) = "delay" ->
         {[sub |-> st.sub, rows |-> st.rows,
           delays |-> <<RateLimitDelayMs(rateLimitReset, now)>>, thrown |-> NotThrown]}
    [] handleBackfillError(err) = "complete" ->
         {[sub |-> r.sub, rows |-> r.rows, delays |-> r.delays, thrown |-> NotThrown] :
            r \in updateTaskStatusAndContinue(st, data, nextTask.task,
                                              nextTask.repositoryId, 0)}
    [] handleBackfillError(err) = "rethrow" ->
         {[sub |-> st.sub, rows |-> st.rows, delays |-> <<>>,
           thrown |-> TaskError(nextTask, err)]}

(***************************************************************************)
(* processInstallation: one worker handling one message.                   *)
(***************************************************************************)
RETRY_DELAY_BASE_SEC == 60

\* RETRY_DELAY_BASE_SEC * Math.random(), in whole seconds: both ends of [0, 60)
Jitters == {0, 59}

\* the reset time (s) and the clock (ms) drawn for a rate-limit error
RateLimitResets == {5}
Clocks == {0, 6000}

\* the queue hands a message to the first idle worker (the workers are alike)
FirstIdle(w) == wk[w].pc = "idle" /\ \A v \in Workers : v < w => wk[v].pc # "idle"

\* the attempt runs whatever the guard answers
ProcessInstallationUnguarded(w, data, blocked, storeReachable, withinGrace, jitter) ==
  /\ FirstIdle(w)
  /\ BagIn(data, queue)
  /\ queue' = queue (-) SetToBag({data})
  /\ marker' = MarkerSet(DedupKey(data), w)
  /\ wk' = [wk EXCEPT ![w] = [IdleWorker EXCEPT !.pc = "doProcessInstallation",
                                               !.data = data,
                                               !.found = Holder(DedupKey(data))]]
  /\ UNCHANGED <<fn, sub, rows, faults>>

\* the log of the last receipt, in the runs that keep one
Received(w, blocked, storeReachable, jitter) ==
  IF fn.op = "guard"
  THEN [fn EXCEPT !.w = w, !.blocked = blocked, !.storeReachable = storeReachable,
                  !.jitter = jitter]
  ELSE fn

\* a skipped message is not sent again
ProcessInstallationDropsSkipped(w, data, blocked, storeReachable, withinGrace, jitter) ==
  /\ FirstIdle(w)
  /\ BagIn(data, queue)
  /\ queue' = queue (-) SetToBag({data})
  /\ IF blocked
     THEN /\ wk' = [wk EXCEPT ![w] = [IdleWorker EXCEPT !.pc = "returned", !.data = data,
                                                       !.result = "blocked"]]
          /\ UNCHANGED marker
     ELSE LET held == Holder(DedupKey(data))
              result == executeWithDeduplication(held, storeReachable, withinGrace)
          IN IF result = "E_OK"
             THEN /\ marker' = MarkerSet(DedupKey(data), w)
                  /\ wk' = [wk EXCEPT ![w] =
                              [IdleWorker EXCEPT !.pc = "doProcessInstallation",
                                                 !.data = data, !.found = held]]
             ELSE /\ UNCHANGED marker
                  /\ wk' = [wk EXCEPT ![w] =
                              [IdleWorker EXCEPT !.pc = "returned", !.data = data,
                                                 !.result = result, !.found = held]]
  /\ fn' = Received(w, blocked, storeReachable, jitter)
  /\ UNCHANGED <<sub, rows, faults>>

\* the feature flag is looked at after the guard set the marker
ProcessInstallationBlockedAfterGuard(w, data, blocked, storeReachable, withinGrace, jitter) ==
  /\ FirstIdle(w)
  /\ BagIn(data, queue)
  /\ LET held == Holder(DedupKey(data))
         result == executeWithDeduplication(held, storeReachable, withinGrace)
     IN IF result = "E_OK"
        THEN /\ queue' = queue (-) SetToBag({data})
             /\ marker' = MarkerSet(DedupKey(data), w)
             /\ wk' = [wk EXCEPT ![w] =
                         [IdleWorker EXCEPT !.pc = IF blocked THEN "returned"
                                                  ELSE "doProcessInstallation",
                                            !.result = IF blocked THEN "blocked" ELSE "none",
                                            !.data = data, !.found = held]]
        ELSE /\ queue' = queue
             /\ UNCHANGED marker
             /\ wk' = [wk EXCEPT ![w] =
                         [IdleWorker EXCEPT
                            !.pc = "returned", !.data = data, !.result = result,
                            !.found = held,
                            !.sent = IF result = "E_NOT_SURE_TRY_AGAIN_LATER"
                                     THEN <<RETRY_DELAY_BASE_SEC>>
                                     ELSE <<RETRY_DELAY_BASE_SEC + jitter>>]]
  /\ fn' = Received(w, blocked, storeReachable, jitter)
  /\ UNCHANGED <<sub, rows, faults>>

\* a message is received: the feature flag, then the guard; a skipped attempt
\* sends the message again
ProcessInstallation(w, data, blocked, storeReachable, withinGrace, jitter) ==
  /\ FirstIdle(w)
  /\ BagIn(data, queue)
  /\ IF blocked
     THEN /\ queue' = queue (-) SetToBag({data})
          /\ wk' = [wk EXCEPT ![w] = [IdleWorker EXCEPT !.pc = "returned", !.data = data,
                                                       !.result = "blocked"]]
          /\ UNCHANGED marker
     ELSE LET held == Holder(DedupKey(data))
              result == executeWithDeduplication(held, storeReachable, withinGrace)
          IN IF result = "E_OK"
             THEN /\ queue' = queue (-) SetToBag({data})
                  /\ marker' = MarkerSet(DedupKey(data), w)
                  /\ wk' = [wk EXCEPT ![w] =
                              [IdleWorker EXCEPT !.pc = "doProcessInstallation",
                                                 !.data = data, !.found = held]]
             ELSE /\ queue' = queue
                  /\ UNCHANGED marker
                  /\ wk' = [wk EXCEPT ![w] =
                              [IdleWorker EXCEPT
                                 !.pc = "returned", !.data = data, !.result = result,
                                 !.found = held,
                                 !.sent = IF result = "E_NOT_SURE_TRY_AGAIN_LATER"
                                          THEN <<RETRY_DELAY_BASE_SEC>>
                                          ELSE <<RETRY_DELAY_BASE_SEC + jitter>>]]
  /\ fn' = Received(w, blocked, storeReachable, jitter)
  /\ UNCHANGED <<sub, rows, faults>>

\* the log of the tasks selected, in the runs that keep one
Selected(nextTask) ==
  IF fn.op = "endToEnd" THEN [fn EXCEPT !.selected = Append(@, nextTask.task)] ELSE fn

\* the attempt goes on to the selector whether a subscription was found or not
DoProcessInstallationUnchecked(w) ==
  /\ wk[w].pc = "doProcessInstallation"
  /\ \E nextTask \in getNextTask(sub, rows, wk[w].data.targetTasks, StoreNullsFirst) :
       IF ~nextTask.some
       THEN /\ sub' = subscriptionUpdate(sub,
                        [syncStatus |-> "COMPLETE",
                         backfillSince |-> getBackfillSince(wk[w].data)])
            /\ wk' = [wk EXCEPT ![w].pc = "finished"]
            /\ UNCHANGED fn
       ELSE /\ sub' = subscriptionUpdate(sub, [syncStatus |-> "ACTIVE"])
            /\ wk' = [wk EXCEPT ![w].pc = "processor", ![w].nextTask = nextTask]
            /\ fn' = Selected(nextTask)
  /\ UNCHANGED <<rows, marker, queue, faults>>

\* doProcessInstallation up to the processor call: the subscription, the next
\* task, syncStatus
DoProcessInstallation(w) ==
  /\ wk[w].pc = "doProcessInstallation"
  /\ IF ~sub.exists
     THEN /\ wk' = [wk EXCEPT ![w].pc = "finished"]
          /\ UNCHANGED <<fn, sub>>
     ELSE \E nextTask \in getNextTask(sub, rows, wk[w].data.targetTasks, StoreNullsFirst) :
            IF ~nextTask.some
            THEN /\ sub' = subscriptionUpdate(sub,
                             [syncStatus |-> "COMPLETE",
                              backfillSince |-> getBackfillSince(wk[w].data)])
                 /\ wk' = [wk EXCEPT ![w].pc = "finished"]
                 /\ UNCHANGED fn
            ELSE /\ sub' = subscriptionUpdate(sub, [syncStatus |-> "ACTIVE"])
                 /\ wk' = [wk EXCEPT ![w].pc = "processor", ![w].nextTask = nextTask]
                 /\ fn' = Selected(nextTask)
  /\ UNCHANGED <<rows, marker, queue, faults>>

\* the processor call and what follows it in the try block.  outcome is "ok" (a
\* result, with or without edges), "jiraError" (a result whose Jira submission
\* fails) or an error of ErrorKinds raised by the client or the processor.
Processor(w, upstream, outcome, rateLimitReset, now) ==
  LET task == wk[w].nextTask
      err == IF outcome = "jiraError" THEN "Error" ELSE outcome
      returned == outcome \in {"ok", "jiraError"}
  IN /\ wk[w].pc = "processor"
     /\ outcome = "jiraError" => task.task # "repository"
     /\ outcome # "ok" => faults < MaxFaults
     /\ faults' = IF outcome = "ok" THEN faults ELSE faults + 1
     /\ rows' = IF returned /\ task.task = "repository"
                THEN RowsAfterDiscovery(upstream, rows, task.cursor)
                ELSE rows
     /\ IF outcome = "ok"
        THEN wk' = [wk EXCEPT ![w].pc = "updateTaskStatus",
                              ![w].edge = NextPage(upstream, task.task, task.cursor),
                              ![w].calls = @ + 1]
        ELSE CASE handleBackfillError(err) = "delay" ->
                    wk' = [wk EXCEPT ![w].pc = "finished", ![w].calls = @ + 1,
                                     ![w].nextTaskDelaysMs =
                                        Append(@, RateLimitDelayMs(rateLimitReset, now))]
               [] handleBackfillError(err) = "complete" ->
                    wk' = [wk EXCEPT ![w].pc = "updateTaskStatus", ![w].edge = 0,
                                     ![w].calls = @ + 1]
               [] handleBackfillError(err) = "rethrow" ->
                    wk' = [wk EXCEPT ![w].pc = "finished", ![w].calls = @ + 1,
                                     ![w].err = "TaskError"]
     /\ UNCHANGED <<fn, sub, marker, queue>>

\* the update goes on with the subscription the attempt started with, deleted
\* or not
UpdateTaskStatusWithoutRefetch(w) ==
  LET task == wk[w].nextTask
      st == StoreAfterStatus([sub |-> sub, rows |-> rows], wk[w].data,
                             task.task, task.repositoryId, wk[w].edge)
  IN /\ wk[w].pc = "updateTaskStatus"
     /\ sub' = st.sub
     /\ rows' = st.rows
     /\ wk' = [wk EXCEPT ![w].pc = IF wk[w].edge # 0 THEN "updateCursor" ELSE "continue",
                         ![w].subscription = st.sub,
                         ![w].writes = @ \cup {<<task.repositoryId, task.task>>}]
     /\ UNCHANGED <<fn, marker, queue, faults>>

\* updateTaskStatusAndContinue up to the first updateRepo
UpdateTaskStatus(w) ==
  LET task == wk[w].nextTask
  IN /\ wk[w].pc = "updateTaskStatus"
     /\ IF ~sub.exists
        THEN /\ wk' = [wk EXCEPT ![w].pc = "finished"]
             /\ UNCHANGED <<sub, rows>>
        ELSE LET st == StoreAfterStatus([sub |-> sub, rows |-> rows], wk[w].data,
                                        task.task, task.repositoryId, wk[w].edge)
             IN /\ sub' = st.sub
                /\ rows' = st.rows
                /\ wk' = [wk EXCEPT ![w].pc = IF wk[w].edge # 0 THEN "updateCursor"
                                              ELSE "continue",
                                    ![w].subscription = st.sub,
                                    ![w].writes = @ \cup {<<task.repositoryId, task.task>>}]
     /\ UNCHANGED <<fn, marker, queue, faults>>

\* after the follow-up of a page with edges the update falls through to the
\* continuation of a completed task
UpdateCursorFallsThrough(w) ==
  LET task == wk[w].nextTask
      st == StoreAfterCursor([sub |-> sub, rows |-> rows], task.task, task.repositoryId,
                             wk[w].edge)
  IN /\ wk[w].pc = "updateCursor"
     /\ sub' = st.sub
     /\ rows' = st.rows
     /\ wk' = [wk EXCEPT ![w].pc = "continue",
                         ![w].nextTaskDelaysMs = Append(@, 0),
                         ![w].writes = @ \cup {<<task.repositoryId, task.task>>}]
     /\ UNCHANGED <<fn, marker, queue, faults>>

\* more data to get: the second updateRepo, and a follow-up at once
UpdateCursor(w) ==
  LET task == wk[w].nextTask
      st == StoreAfterCursor([sub |-> sub, rows |-> rows], task.task, task.repositoryId,
                             wk[w].edge)
  IN /\ wk[w].pc = "updateCursor"
     /\ sub' = st.sub
     /\ rows' = st.rows
     /\ wk' = [wk EXCEPT ![w].pc = "finished", ![w].subscription = NoSubscription,
                         ![w].nextTaskDelaysMs = Append(@, 0),
                         ![w].writes = @ \cup {<<task.repositoryId, task.task>>}]
     /\ UNCHANGED <<fn, marker, queue, faults>>

\* the task is complete: either the whole sync is, or a follow-up at once
Continue(w) ==
  /\ wk[w].pc = "continue"
  /\ \E c \in Continuations(wk[w].subscription, [sub |-> sub, rows |-> rows], wk[w].data) :
       /\ sub' = c.sub
       /\ wk' = [wk EXCEPT ![w].pc = "finished", ![w].subscription = NoSubscription,
                           ![w].nextTaskDelaysMs = @ \o c.delays]
  /\ UNCHANGED <<fn, rows, marker, queue, faults>>

\* the marker is cleared after a normal return only
FinishAttemptHeldOnThrow(w) ==
  /\ wk[w].pc = "finished"
  /\ IF wk[w].err = "none"
     THEN LET sent == maybeScheduleNextTask(wk[w].nextTaskDelaysMs)
          IN /\ marker' = MarkerCleared(DedupKey(wk[w].data))
             /\ queue' = IF sent # <<>> THEN queue (+) SetToBag({wk[w].data}) ELSE queue
             /\ wk' = [wk EXCEPT ![w].pc = "returned", ![w].result = "E_OK",
                                 ![w].sent = sent]
     ELSE /\ wk' = [wk EXCEPT ![w].pc = "thrown"]
          /\ UNCHANGED <<marker, queue>>
  /\ UNCHANGED <<fn, sub, rows, faults>>

\* the attempt is over: the guard clears the marker; after a normal return the
\* result is E_OK and maybeScheduleNextTask sends, after a throw the error goes
\* on to the transport
FinishAttempt(w) ==
  /\ wk[w].pc = "finished"
  /\ marker' = MarkerCleared(DedupKey(wk[w].data))
  /\ IF wk[w].err = "none"
     THEN LET sent == maybeScheduleNextTask(wk[w].nextTaskDelaysMs)
          IN /\ queue' = IF sent # <<>> THEN queue (+) SetToBag({wk[w].data}) ELSE queue
             /\ wk' = [wk EXCEPT ![w].pc = "returned", ![w].result = "E_OK",
                                 ![w].sent = sent]
     ELSE /\ wk' = [wk EXCEPT ![w].pc = "thrown"]
          /\ UNCHANGED queue
  /\ UNCHANGED <<fn, sub, rows, faults>>

\* the handler returned: the transport deletes the message
Return(w) ==
  /\ wk[w].pc = "returned"
  /\ wk' = [wk EXCEPT ![w] = IdleWorker]
  /\ UNCHANGED <<fn, sub, rows, marker, queue, faults>>

\* the handler threw: the transport delivers the message again
Redeliver(w) ==
  /\ wk[w].pc = "thrown"
  /\ queue' = queue (+) SetToBag({wk[w].data})
  /\ wk' = [wk EXCEPT ![w] = IdleWorker]
  /\ UNCHANGED <<fn, sub, rows, marker, faults>>

\* a follow-up is requested whatever the task
markCurrentTaskAsFailedAndContinueAlways(st, data, nextTask) ==
  IF ~st.sub.exists THEN [sub |-> st.sub, rows |-> st.rows, delays |-> <<>>]
  ELSE LET st1 == updateRepo(st, nextTask.repositoryId,
                             getStatusKey(nextTask.task) :> "failed")
       IN IF nextTask.task = "repository"
          THEN [sub |-> subscriptionUpdate(st1.sub, [syncStatus |-> "FAILED"]),
                rows |-> st1.rows, delays |-> <<0>>]
          ELSE [sub |-> st1.sub, rows |-> st1.rows, delays |-> <<0>>]

\* the sync is FAILED whatever the task
markCurrentTaskAsFailedAndContinueAllFatal(st, data, nextTask) ==
  IF ~st.sub.exists THEN [sub |-> st.sub, rows |-> st.rows, delays |-> <<>>]
  ELSE LET st1 == updateRepo(st, nextTask.repositoryId,
                             getStatusKey(nextTask.task) :> "failed")
       IN [sub |-> subscriptionUpdate(st1.sub, [syncStatus |-> "FAILED"]),
           rows |-> st1.rows,
           delays |-> IF nextTask.task = "repository" THEN <<>> ELSE <<0>>]

\* markCurrentTaskAsFailedAndContinue(data, nextTask, scheduleNextTask) on the
\* store st: the store afterwards and the delays requested
markCurrentTaskAsFailedAndContinue(st, data, nextTask) ==
  IF ~st.sub.exists THEN [sub |-> st.sub, rows |-> st.rows, delays |-> <<>>]
  ELSE LET st1 == updateRepo(st, nextTask.repositoryId,
                             getStatusKey(nextTask.task) :> "failed")
       IN IF nextTask.task = "repository"
          THEN [sub |-> subscriptionUpdate(st1.sub, [syncStatus |-> "FAILED"]),
                rows |-> st1.rows, delays |-> <<>>]
          ELSE [sub |-> st1.sub, rows |-> st1.rows, delays |-> <<0>>]

\* the handler threw and the transport gives up: markCurrentTaskAsFailedAndContinue
\* with the TaskError's task, its scheduleNextTask sending the message again
MarkCurrentTaskAsFailedAndContinue(w) ==
  LET r == markCurrentTaskAsFailedAndContinue([sub |-> sub, rows |-> rows], wk[w].data,
                                              wk[w].nextTask)
  IN /\ wk[w].pc = "thrown"
     /\ sub' = r.sub
     /\ rows' = r.rows
     /\ queue' = IF r.delays # <<>> THEN queue (+) SetToBag({wk[w].data}) ELSE queue
     /\ wk' = [wk EXCEPT ![w].pc = "returned", ![w].result = "markedFailed",
                         ![w].sent = r.delays]
     /\ UNCHANGED <<fn, marker, faults>>

\* JiraDelete: the subscription is destroyed, and its rows with it
JiraDelete ==
  /\ sub.exists
  /\ sub' = NoSubscription
  /\ rows' = <<>>
  /\ UNCHANGED <<fn, marker, queue, wk, faults>>

(***************************************************************************)
(* The engine: two workers, and one message delivered twice.               *)
(***************************************************************************)
\* the messages of the engine's runs: a commit-only backfill with a commit floor
\* and a backfill of builds and commits without one (the full catalog is run by
\* SpecEndToEnd)
EngineMessages ==
  {Message(FilterOf(<<"commit">>), 1), Message(FilterOf(<<"build", "commit">>), 0)}

\* fn keeps the message of the run
Init ==
  /\ sub = NewSubscription
  /\ rows = <<>>
  /\ marker = NoMarkers
  /\ \E m \in EngineMessages :
       /\ fn = [op |-> "engine", data |-> m]
       /\ queue = SetToBag({m}) (+) SetToBag({m})
  /\ wk = [w \in Workers |-> IdleWorker]
  /\ faults = 0

Next ==
  \/ \E w \in Workers, data \in EngineMessages, blocked, storeReachable, withinGrace \in BOOLEAN,
        jitter \in Jitters :
       ProcessInstallation(w, data, blocked, storeReachable, withinGrace, jitter)
  \/ \E w \in Workers : DoProcessInstallation(w)
  \/ \E w \in Workers, outcome \in ErrorKinds \cup {"ok", "jiraError"},
        rateLimitReset \in RateLimitResets, now \in Clocks :
       Processor(w, Upstream, outcome, rateLimitReset, now)
  \/ \E w \in Workers : UpdateTaskStatus(w)
  \/ \E w \in Workers : UpdateCursor(w)
  \/ \E w \in Workers : Continue(w)
  \/ \E w \in Workers : FinishAttempt(w)
  \/ \E w \in Workers : Return(w)
  \/ \E w \in Workers : Redeliver(w)
  \/ \E w \in Workers : MarkCurrentTaskAsFailedAndContinue(w)
  \/ JiraDelete

Spec == Init /\ [][Next]_vars

(***************************************************************************)
(* Properties of the engine.                                               *)
(***************************************************************************)
\* w is between the guard setting the marker and the guard clearing it
InAttempt(w) ==
  wk[w].pc \in {"doProcessInstallation", "processor", "updateTaskStatus", "updateCursor",
                "continue", "finished"}

SkipResults == {"E_OTHER_WORKER_DOING_THIS_JOB", "E_NOT_SURE_TRY_AGAIN_LATER"}

\* C1: at most one worker is executing the attempt at any time, and it is the
\* worker that found the marker clear and set it; a handler that found the
\* marker set never runs the attempt (no task, no processor call, no write)
\* and its result is E_OTHER_WORKER_DOING_THIS_JOB or E_NOT_SURE_TRY_AGAIN_LATER
DedupMutualExclusion ==
  /\ \A v, w \in Workers : InAttempt(v) /\ InAttempt(w) => v = w
  /\ \A w \in Workers : InAttempt(w) => Holder(DedupKey(wk[w].data)) = w /\ wk[w].found = 0
  /\ \A w \in Workers :
       wk[w].found # 0 =>
         /\ wk[w].pc = "returned"
         /\ wk[w].result \in SkipResults
         /\ wk[w].nextTask = NoTask /\ wk[w].calls = 0 /\ wk[w].writes = {}

\* worker 1 is in the processor call of its attempt and worker 2, handed the
\* same message meanwhile, found the marker held and returned without running
SkippedWhileOtherInAttempt ==
  /\ wk[1].pc = "processor" /\ Holder(DedupKey(wk[1].data)) = 1
  /\ wk[2].pc = "returned" /\ wk[2].found = 1
  /\ wk[2].result = "E_OTHER_WORKER_DOING_THIS_JOB"
  /\ wk[2].sent = <<RETRY_DELAY_BASE_SEC + 59>>

\* the status, the cursor or the commit floor of category t changes in row i
RowTaskChanged(i, t) ==
  \/ rows'[i][getStatusKey(t)] # rows[i][getStatusKey(t)]
  \/ rows'[i][getCursorKey(t)] # rows[i][getCursorKey(t)]
  \/ t = "commit" /\ rows'[i].commitFrom # rows[i].commitFrom

\* the status or the cursor of discovery changes
DiscoveryChanged ==
  \/ sub'.repositoryStatus # sub.repositoryStatus
  \/ sub'.repositoryCursor # sub.repositoryCursor

\* w takes a step of doProcessInstallation
AttemptStep(w) == InAttempt(w) /\ wk[w].pc # "finished" /\ wk'[w] # wk[w]

\* C2: one execution of doProcessInstallation calls at most one processor, and
\* each of its steps changes the status, cursor or commit floor of no task but
\* its own: the one category of the one repository it selected, or discovery;
\* the rate-limit path and the not-found path included
AtMostOneTaskPerAttempt ==
  [][\A w \in Workers :
       /\ wk'[w].calls <= 1
       /\ wk'[w].calls = 1 => wk'[w].nextTask.some
       /\ AttemptStep(w) =>
            /\ Len(rows') >= Len(rows)
            /\ \A i \in DOMAIN rows, t \in TaskTypes :
                 RowTaskChanged(i, t) =>
                   /\ wk[w].nextTask.task = t
                   /\ wk[w].nextTask.repositoryId = rows[i].repoId
            /\ DiscoveryChanged => wk[w].nextTask.task = "repository"]_vars

\* an attempt met a not-found error in its one processor call and completed the
\* commit task it had selected, writing to that task alone
NotFoundCompletedOwnTask ==
  \E w \in Workers :
    /\ wk[w].pc = "continue" /\ wk[w].calls = 1 /\ wk[w].edge = 0 /\ faults = 1
    /\ wk[w].nextTask.task = "commit"
    /\ wk[w].writes = {<<wk[w].nextTask.repositoryId, "commit">>}
    /\ \E i \in DOMAIN rows :
         rows[i].repoId = wk[w].nextTask.repositoryId /\ rows[i]["commitStatus"] = "complete"

(***************************************************************************)
(* End to end: a subscription with one repository and nothing started, a   *)
(* message without a filter delivered twice, and upstream with nothing to  *)
(* fetch, so that every processor finishes in one attempt.                 *)
(***************************************************************************)
EndToEndMessages == {Message(AbsentFilter, d) : d \in 0..1}

InitEndToEnd ==
  /\ fn = [op |-> "endToEnd", selected |-> <<>>]
  /\ \E s \in Statuses \ {"complete"} : sub = [NewSubscription EXCEPT !.repositoryStatus = s]
  /\ rows = <<NewRow(UpstreamRepoId(1), 1)>>
  /\ marker = NoMarkers
  /\ \E m \in EndToEndMessages : queue = SetToBag({m}) (+) SetToBag({m})
  /\ wk = [w \in Workers |-> IdleWorker]
  /\ faults = 0

NextEndToEnd ==
  \/ \E w \in Workers, data \in EndToEndMessages, blocked, storeReachable, withinGrace \in BOOLEAN,
        jitter \in Jitters :
       ProcessInstallation(w, data, blocked, storeReachable, withinGrace, jitter)
  \/ \E w \in Workers : DoProcessInstallation(w)
  \/ \E w \in Workers, rateLimitReset \in RateLimitResets, now \in Clocks :
       Processor(w, NothingUpstream, "ok", rateLimitReset, now)
  \/ \E w \in Workers : UpdateTaskStatus(w)
  \/ \E w \in Workers : Continue(w)
  \/ \E w \in Workers : FinishAttempt(w)
  \/ \E w \in Workers : Return(w)

SpecEndToEnd == InitEndToEnd /\ [][NextEndToEnd]_vars

CatalogSequence == <<"repository", "pull", "branch", "commit", "build", "deployment">>

IsPrefix(a, b) == Len(a) <= Len(b) /\ \A i \in 1..Len(a) : a[i] = b[i]

\* some attempt has selected a task and not yet finished updating it
TaskInProgress == \E w \in Workers : wk[w].pc \in {"processor", "updateTaskStatus", "continue"}

\* C7: the tasks selected by successive attempts are repository, pull, branch,
\* commit, build, deployment in that order and nothing more; once the
\* deployment attempt has finished its update the selector returns none and
\* syncStatus is COMPLETE, and syncStatus is not COMPLETE before
EndToEndSequence ==
  /\ IsPrefix(fn.selected, CatalogSequence)
  /\ fn.selected = CatalogSequence /\ ~TaskInProgress =>
       /\ sub.syncStatus = "COMPLETE"
       /\ getNextTask(sub, rows, AbsentFilter, StoreNullsFirst) = {NoTask}
  /\ sub.syncStatus = "COMPLETE" => fn.selected = CatalogSequence /\ ~TaskInProgress

\* the six tasks were selected in order, the sync is COMPLETE and a later attempt
\* of the second delivery found nothing to select
EndToEndCompleted ==
  /\ fn.selected = CatalogSequence
  /\ sub.syncStatus = "COMPLETE" /\ sub.repositoryStatus = "complete"
  /\ \A t \in TaskTypes : rows[1][getStatusKey(t)] = "complete"
  /\ \E w \in Workers : wk[w].pc = "finished" /\ ~wk[w].nextTask.some /\ wk[w].found = 0

(***************************************************************************)
(* Progress: the engine with an existing, unblocked subscription, a        *)
(* reachable marker store and no upstream error but rate limits and        *)
(* not-found.  The queue delivers every message (weak fairness of          *)
(* receipt), and a handler that has started runs on: its attempt ends,     *)
(* the guard releases the marker, the handler returns.                     *)
(***************************************************************************)
LiveOutcomes == {"ok", "RateLimitingError", "GithubClientError404"}

Deliver ==
  \E w \in Workers, data \in EngineMessages, withinGrace \in BOOLEAN, jitter \in Jitters :
    ProcessInstallation(w, data, FALSE, TRUE, withinGrace, jitter)

ProcessorLive(w) ==
  \E outcome \in LiveOutcomes, rateLimitReset \in RateLimitResets, now \in Clocks :
    Processor(w, Upstream, outcome, rateLimitReset, now)

\* the steps of a handler that has received its message
HandlerStep(w) ==
  \/ DoProcessInstallation(w)
  \/ ProcessorLive(w)
  \/ UpdateTaskStatus(w)
  \/ UpdateCursor(w)
  \/ Continue(w)
  \/ FinishAttempt(w)
  \/ Return(w)

NextLive ==
  \/ Deliver
  \/ \E w \in Workers : DoProcessInstallation(w)
  \/ \E w \in Workers : ProcessorLive(w)
  \/ \E w \in Workers : UpdateTaskStatus(w)
  \/ \E w \in Workers : UpdateCursor(w)
  \/ \E w \in Workers : Continue(w)
  \/ \E w \in Workers : FinishAttempt(w)
  \/ \E w \in Workers : Return(w)

SpecLive ==
  /\ Init
  /\ [][NextLive]_vars
  /\ WF_vars(Deliver)
  /\ \A w \in Workers : WF_vars(HandlerStep(w))

\* discovery is complete, and so is every category of the run's filter in every
\* row of the store
AllInFilterComplete ==
  /\ sub.repositoryStatus = "complete"
  /\ \A i \in DOMAIN rows :
       \A t \in Range(getTargetTasks(fn.data.targetTasks)) : rows[i][getStatusKey(t)] = "complete"

\* C8: progress converges: the backfill reaches syncStatus COMPLETE with every
\* in-filter (repository, category) pair complete and no message left queued,
\* and stays there
ProgressConverges ==
  <>[](sub.syncStatus = "COMPLETE" /\ AllInFilterComplete /\ queue = EmptyBag)

\* the backfill of builds and commits is COMPLETE after an upstream error on the
\* way, and both deliveries of the message are consumed
ConvergedAfterError ==
  /\ sub.syncStatus = "COMPLETE" /\ AllInFilterComplete /\ queue = EmptyBag
  /\ fn.data.targetTasks = FilterOf(<<"build", "commit">>)
  /\ faults = MaxFaults
  /\ {rows[i].repoId : i \in DOMAIN rows} = {UpstreamRepoId(k) : k \in 1..NumRepos}
  /\ \A w \in Workers : wk[w].pc = "idle"

(***************************************************************************)
(* handleBackfillError on a drawn store, a drawn task and a drawn error.   *)
(***************************************************************************)
ErrorFilters == {AbsentFilter, FilterOf(<<"commit">>)}

ErrorCalls ==
  {[op |-> "handleBackfillError", phase |-> "drawn", err |-> e,
    rateLimitReset |-> r, now |-> n,
    data |-> [targetTasks |-> f, commitsFromDate |-> d],
    nextTask |-> TaskOf(t, IF t = "repository" THEN 0 ELSE DrawnRepoId(1), c),
    before |-> <<>>, delays |-> <<>>, thrown |-> NotThrown] :
     e \in ErrorKinds, r \in RateLimitResets, n \in Clocks, f \in ErrorFilters,
     d \in 0..1, t \in {"repository", "commit", "build"}, c \in 0..1}

InitError ==
  /\ fn \in ErrorCalls
  /\ \/ sub = NoSubscription
     \/ \E st \in {"pending", "complete"} :
          sub = [NewSubscription EXCEPT !.repositoryStatus = st, !.syncStatus = "ACTIVE"]
  /\ \E target \in DrawnTargetRows, other \in DrawnOtherRows : rows = <<target, other>>
  /\ EngineAtRest

\* the catch block of doProcessInstallation: the store before is kept in fn.before
CallHandleBackfillError ==
  /\ fn.op = "handleBackfillError" /\ fn.phase = "drawn"
  /\ \E r \in handleBackfillErrorOnStore([sub |-> sub, rows |-> rows], fn.err, fn.data,
                                         fn.nextTask, fn.rateLimitReset, fn.now) :
       /\ sub' = r.sub
       /\ rows' = r.rows
       /\ fn' = [fn EXCEPT !.phase = "called", !.delays = r.delays, !.thrown = r.thrown,
                           !.before = [sub |-> sub, rows |-> rows]]
  /\ UNCHANGED <<marker, queue, wk, faults>>

NextError == CallHandleBackfillError

SpecError == InitError /\ [][NextError]_vars

Handled(errs) == fn.op = "handleBackfillError" /\ fn.phase = "called" /\ fn.err \in errs

StoreUnchanged == sub = fn.before.sub /\ rows = fn.before.rows

\* C11: after a rate-limit error with reset time R the attempt throws nothing,
\* leaves the store (so the task's status and cursor) as it was, and requests
\* exactly one follow-up, with delay max(R * 1000 - now, 0) ms: 5000 ms for a
\* reset at 5 s seen at 0 ms, 0 for one seen at 6000 ms
RateLimitDelaysFollowUp ==
  Handled({"RateLimitingError"}) =>
    /\ fn.thrown = NotThrown
    /\ StoreUnchanged
    /\ Len(fn.delays) = 1
    /\ fn.delays[1] >= 0
    /\ fn.delays[1] >= fn.rateLimitReset * 1000 - fn.now
    /\ fn.delays[1] \in {0, fn.rateLimitReset * 1000 - fn.now}
    /\ fn.rateLimitReset = 5 /\ fn.now = 0 => fn.delays = <<5000>>
    /\ fn.rateLimitReset = 5 /\ fn.now = 6000 => fn.delays = <<0>>

\* a rate limit that had reset a second before it was seen: an immediate follow-up
RateLimitAlreadyReset ==
  /\ Handled({"RateLimitingError"}) /\ fn.rateLimitReset = 5 /\ fn.now = 6000
  /\ fn.delays = <<0>> /\ sub.exists /\ fn.nextTask.task = "commit"

NotFoundErrors == {"GithubClientError404", "GithubClientGraphQLErrorNotFound"}

\* the status of fn.nextTask in the store now
HandledTaskStatuses ==
  IF fn.nextTask.task = "repository" THEN {sub.repositoryStatus}
  ELSE {rows[i][getStatusKey(fn.nextTask.task)] :
          i \in findByRepoId(rows, fn.nextTask.repositoryId)}

\* no cursor differs from what it was before the call
CursorsUnchanged ==
  /\ sub.repositoryCursor = fn.before.sub.repositoryCursor
  /\ \A i \in DOMAIN rows, t \in TaskTypes :
       rows[i][getCursorKey(t)] = fn.before.rows[i][getCursorKey(t)]

\* no status but that of fn.nextTask differs from what it was before the call
OtherStatusesUnchanged ==
  /\ fn.nextTask.task # "repository" => sub.repositoryStatus = fn.before.sub.repositoryStatus
  /\ \A i \in DOMAIN rows, t \in TaskTypes :
       (t # fn.nextTask.task \/ rows[i].repoId # fn.nextTask.repositoryId) =>
         rows[i][getStatusKey(t)] = fn.before.rows[i][getStatusKey(t)]

\* C12: after a not-found error (status 404 or the GraphQL not-found marker) for
\* category C of repository R nothing is thrown, C is complete for R, no cursor
\* and no other status has changed, and the selector no longer returns (R, C):
\* it returns the next outstanding task and a follow-up with delay 0 was
\* requested, or none and syncStatus is COMPLETE; all as after a result without
\* edges.  If the subscription is gone nothing is written or requested.
NotFoundCompletesTask ==
  Handled(NotFoundErrors) =>
    /\ fn.thrown = NotThrown
    /\ IF ~fn.before.sub.exists
       THEN StoreUnchanged /\ fn.delays = <<>>
       ELSE /\ HandledTaskStatuses = {"complete"}
            /\ CursorsUnchanged
            /\ OtherStatusesUnchanged
            /\ \A t \in getNextTask(sub, rows, fn.data.targetTasks, StoreNullsFirst) :
                 /\ ~(t.some /\ t.task = fn.nextTask.task
                             /\ t.repositoryId = fn.nextTask.repositoryId)
                 /\ IF t.some THEN fn.delays = <<0>>
                    ELSE fn.delays = <<>> /\ sub.syncStatus = "COMPLETE"

\* a 404 for the unset build of a repository: build is complete for it and a
\* follow-up goes on with the other repository
NotFoundBuildCompleted ==
  /\ Handled({"GithubClientError404"}) /\ fn.nextTask.task = "build"
  /\ fn.before.sub.exists /\ fn.before.sub.repositoryStatus = "complete"
  /\ fn.before.rows[1]["buildStatus"] = "unset"
  /\ rows[1]["buildStatus"] = "complete"
  /\ fn.delays = <<0>>
  /\ \E t \in getNextTask(sub, rows, fn.data.targetTasks, StoreNullsFirst) :
       t.some /\ t.repositoryId # fn.nextTask.repositoryId

\* C13: every error that is neither a rate-limit error nor a not-found error, a
\* client error with another status included, is thrown again as a TaskError
\* carrying a copy of the attempted task; the store (so the task's status and
\* cursor) is left as it was and no follow-up is requested
OtherErrorsRethrown ==
  Handled(ErrorKinds \ ({"RateLimitingError"} \cup NotFoundErrors)) =>
    /\ fn.thrown = TaskError(fn.nextTask, fn.err)
    /\ StoreUnchanged
    /\ fn.delays = <<>>

(***************************************************************************)
(* markCurrentTaskAsFailedAndContinue on a drawn store and a drawn task.   *)
(***************************************************************************)
FailedCalls ==
  {[op |-> "markCurrentTaskAsFailedAndContinue", phase |-> "drawn",
    data |-> [targetTasks |-> f, commitsFromDate |-> d],
    nextTask |-> TaskOf(t, IF t = "repository" THEN 0 ELSE DrawnRepoId(1), c),
    before |-> <<>>, delays |-> <<>>] :
     f \in ErrorFilters, d \in 0..1, t \in {"repository", "commit", "build"}, c \in 0..1}

InitFailed ==
  /\ fn \in FailedCalls
  /\ \/ sub = NoSubscription
     \/ \E st \in {"pending", "complete"}, sy \in {"ACTIVE", "COMPLETE"} :
          sub = [NewSubscription EXCEPT !.repositoryStatus = st, !.syncStatus = sy]
  /\ \E target \in DrawnTargetRows, other \in DrawnOtherRows : rows = <<target, other>>
  /\ EngineAtRest

CallMarkCurrentTaskAsFailedAndContinue ==
  /\ fn.op = "markCurrentTaskAsFailedAndContinue" /\ fn.phase = "drawn"
  /\ LET r == markCurrentTaskAsFailedAndContinue([sub |-> sub, rows |-> rows], fn.data,
                                                 fn.nextTask)
     IN /\ sub' = r.sub
        /\ rows' = r.rows
        /\ fn' = [fn EXCEPT !.phase = "called", !.delays = r.delays,
                            !.before = [sub |-> sub, rows |-> rows]]
  /\ UNCHANGED <<marker, queue, wk, faults>>

NextFailed == CallMarkCurrentTaskAsFailedAndContinue

SpecFailed == InitFailed /\ [][NextFailed]_vars

\* C14: markCurrentTaskAsFailedAndContinue sets the status of the given task to
\* failed and changes no other status, no cursor and no commit floor; for
\* repository discovery it sets syncStatus to FAILED and requests no follow-up,
\* for any other task it leaves syncStatus as it was and requests exactly one
\* follow-up, with delay 0.  If the subscription is gone it does nothing.
MarkedFailedExactlyTheTask ==
  (fn.op = "markCurrentTaskAsFailedAndContinue" /\ fn.phase = "called") =>
    IF ~fn.before.sub.exists
    THEN StoreUnchanged /\ fn.delays = <<>>
    ELSE /\ HandledTaskStatuses = {"failed"}
         /\ OtherStatusesUnchanged
         /\ CursorsUnchanged
         /\ \A i \in DOMAIN rows : rows[i].commitFrom = fn.before.rows[i].commitFrom
         /\ sub.backfillSince = fn.before.sub.backfillSince
         /\ IF fn.nextTask.task = "repository"
            THEN sub.syncStatus = "FAILED" /\ fn.delays = <<>>
            ELSE sub.syncStatus = fn.before.sub.syncStatus /\ fn.delays = <<0>>

\* discovery, pending, was marked failed: the sync is FAILED and nothing follows
DiscoveryMarkedFailed ==
  /\ fn.op = "markCurrentTaskAsFailedAndContinue" /\ fn.phase = "called"
  /\ fn.nextTask.task = "repository"
  /\ fn.before.sub.exists /\ fn.before.sub.repositoryStatus = "pending"
  /\ fn.before.sub.syncStatus = "ACTIVE"
  /\ sub.repositoryStatus = "failed" /\ sub.syncStatus = "FAILED" /\ fn.delays = <<>>

(***************************************************************************)
(* Giving up: the engine with an existing, unblocked subscription, where   *)
(* a processor or the Jira submission may fail with an error that is       *)
(* thrown on; the transport delivers the message again or gives up and     *)
(* calls markCurrentTaskAsFailedAndContinue.                               *)
(***************************************************************************)
GiveUpOutcomes == {"ok", "jiraError", "Error"}

ProcessorGiveUp(w) ==
  \E outcome \in GiveUpOutcomes, rateLimitReset \in RateLimitResets, now \in Clocks :
    Processor(w, Upstream, outcome, rateLimitReset, now)

\* the steps of a handler that has received its message, and of the transport
\* after it threw
HandlerOrTransportStep(w) ==
  \/ DoProcessInstallation(w)
  \/ ProcessorGiveUp(w)
  \/ UpdateTaskStatus(w)
  \/ UpdateCursor(w)
  \/ Continue(w)
  \/ FinishAttempt(w)
  \/ Return(w)
  \/ Redeliver(w)
  \/ MarkCurrentTaskAsFailedAndContinue(w)

NextGiveUp ==
  \/ Deliver
  \/ \E w \in Workers : DoProcessInstallation(w)
  \/ \E w \in Workers : ProcessorGiveUp(w)
  \/ \E w \in Workers : UpdateTaskStatus(w)
  \/ \E w \in Workers : UpdateCursor(w)
  \/ \E w \in Workers : Continue(w)
  \/ \E w \in Workers : FinishAttempt(w)
  \/ \E w \in Workers : Return(w)
  \/ \E w \in Workers : Redeliver(w)
  \/ \E w \in Workers : MarkCurrentTaskAsFailedAndContinue(w)

SpecGiveUp ==
  /\ Init
  /\ [][NextGiveUp]_vars
  /\ WF_vars(Deliver)
  /\ \A w \in Workers : WF_vars(HandlerOrTransportStep(w))

\* discovery is complete and every category of the run's filter is complete or
\* failed in every row of the store
AllInFilterCompleteOrFailed ==
  /\ sub.repositoryStatus = "complete"
  /\ \A i \in DOMAIN rows :
       \A t \in Range(getTargetTasks(fn.data.targetTasks)) :
         rows[i][getStatusKey(t)] \in {"complete", "failed"}

\* C15: syncStatus becomes FAILED only in the step that marks repository
\* discovery failed, never in one that marks a category of a repository failed;
\* and as long as discovery is never marked failed, categories marked failed do
\* not stop the rest: the sync ends COMPLETE with every in-filter category of
\* every repository complete or failed, and nothing left queued
FailedOnlyByDiscovery ==
  /\ [][(sub'.syncStatus = "FAILED" /\ sub.syncStatus # "FAILED") =>
          /\ sub'.repositoryStatus = "failed"
          /\ \E w \in Workers :
               /\ wk[w].pc = "thrown" /\ wk'[w].result = "markedFailed"
               /\ wk[w].nextTask.task = "repository"]_vars
  /\ [][\A w \in Workers :
          (wk[w].pc = "thrown" /\ wk'[w].result = "markedFailed"
             /\ wk[w].nextTask.task # "repository") =>
            /\ sub'.syncStatus = sub.syncStatus
            /\ wk'[w].sent = <<0>>]_vars
  /\ [](sub.repositoryStatus # "failed") =>
       <>[](sub.syncStatus = "COMPLETE" /\ AllInFilterCompleteOrFailed /\ queue = EmptyBag)

\* the build of the repository was marked failed, its commits were backfilled
\* all the same and the sync is COMPLETE
CompleteWithFailedCategory ==
  /\ sub.syncStatus = "COMPLETE" /\ AllInFilterCompleteOrFailed /\ queue = EmptyBag
  /\ fn.data.targetTasks = FilterOf(<<"build", "commit">>)
  /\ \E i \in DOMAIN rows :
       rows[i]["buildStatus"] = "failed" /\ rows[i]["commitStatus"] = "complete"
  /\ \A w \in Workers : wk[w].pc = "idle"

(***************************************************************************)
(* maybeScheduleNextTask on drawn lists of requested delays.               *)
(***************************************************************************)
\* delays (ms) on both sides of a second, and of different lengths as strings
DelaysMs == {0, 1, 999, 1000, 1001, 5000, 10000}

InitSchedule ==
  /\ fn \in {[op |-> "maybeScheduleNextTask", phase |-> "drawn", nextTaskDelaysMs |-> l,
              delayMs |-> 0, sent |-> <<>>] : l \in SeqsUpTo(DelaysMs, MaxDelays)}
  /\ sub = NoSubscription
  /\ rows = <<>>
  /\ EngineAtRest

\* the call: fn.delayMs is the element shifted off the list, fn.sent the delays
\* (s) of the messages sent, and the messages are on the queue
CallMaybeScheduleNextTask ==
  /\ fn.op = "maybeScheduleNextTask" /\ fn.phase = "drawn"
  /\ LET sent == maybeScheduleNextTask(fn.nextTaskDelaysMs)
     IN /\ fn' = [fn EXCEPT !.phase = "called", !.sent = sent,
                            !.delayMs = IF Len(fn.nextTaskDelaysMs) > 0
                                        THEN ShiftAfterSortReverse(fn.nextTaskDelaysMs)
                                        ELSE 0]
        /\ queue' = IF sent # <<>> THEN queue (+) SetToBag({NoMessage}) ELSE queue
  /\ UNCHANGED <<sub, rows, marker, wk, faults>>

NextSchedule == CallMaybeScheduleNextTask

SpecSchedule == InitSchedule /\ [][NextSchedule]_vars

Scheduled == fn.op = "maybeScheduleNextTask" /\ fn.phase = "called"

\* C16: for every non-empty list of requested delays the follow-up is sent with
\* the numerically least of them
MinimumDelayChosen ==
  (Scheduled /\ Len(fn.nextTaskDelaysMs) > 0) =>
    /\ fn.delayMs \in Range(fn.nextTaskDelaysMs)
    /\ \A d \in Range(fn.nextTaskDelaysMs) : fn.delayMs <= d
    /\ \A d \in Range(fn.nextTaskDelaysMs) : fn.sent[1] <= CeilSeconds(d)

\* C17: no message is sent when no delay was requested, exactly one when one or
\* more were, and its delay in seconds is the chosen delay in milliseconds
\* divided by 1000 and rounded up: the least whole number of seconds that is not
\* shorter than it
OneFollowUpInWholeSeconds ==
  Scheduled =>
    IF Len(fn.nextTaskDelaysMs) = 0
    THEN fn.sent = <<>> /\ queue = EmptyBag
    ELSE /\ Len(fn.sent) = 1 /\ BagCardinality(queue) = 1
         /\ fn.delayMs \in Range(fn.nextTaskDelaysMs)
         /\ fn.sent[1] * 1000 >= fn.delayMs
         /\ (fn.sent[1] - 1) * 1000 < fn.delayMs

\* two delays were requested, 1001 ms was chosen and one message went out with
\* a delay of 2 s
SentRoundedUp ==
  /\ Scheduled /\ Len(fn.nextTaskDelaysMs) = 2
  /\ fn.delayMs = 1001 /\ fn.sent = <<2>> /\ BagCardinality(queue) = 1

\* C18: once an attempt that acquired the marker has finished, by a normal
\* return or by a throw, the marker of its key is cleared: no worker outside an
\* attempt holds a marker, and when no attempt is running no marker is set, so
\* that the next call of the guard with the key answers E_OK
MarkerClearedOnEveryExit ==
  /\ \A w \in Workers : ~InAttempt(w) => \A k \in DOMAIN marker : marker[k] # w
  /\ (\A w \in Workers : ~InAttempt(w)) =>
       /\ marker = NoMarkers
       /\ \A d \in EngineMessages :
            executeWithDeduplication(Holder(DedupKey(d)), TRUE, FALSE) = "E_OK"

\* the attempt of worker 1 threw, and worker 2, handed the message after that,
\* found the marker clear and is running its attempt
AcquiredAfterThrow ==
  /\ wk[1].pc = "thrown" /\ wk[1].err = "TaskError"
  /\ wk[2].pc = "processor" /\ wk[2].found = 0
  /\ Holder(DedupKey(wk[2].data)) = 2

(***************************************************************************)
(* The guard over several installations: two messages drawn from          *)
(* installations, Jira hosts and GitHub Apps, none of them with a          *)
(* subscription in the store, so that an attempt ends at once.             *)
(***************************************************************************)
KeyMessages ==
  {[installationId |-> i, jiraHost |-> h, gitHubAppId |-> a,
    targetTasks |-> AbsentFilter, commitsFromDate |-> 0] :
     i \in {1, 11}, h \in {"h", "1-h", "h-ghaid-1"}, a \in {0, 1}}

InitKeys ==
  /\ fn = [op |-> "guard", w |-> 0, blocked |-> FALSE, storeReachable |-> TRUE,
           jitter |-> 0]
  /\ sub = NoSubscription
  /\ rows = <<>>
  /\ marker = NoMarkers
  /\ \E m1, m2 \in KeyMessages : queue = SetToBag({m1}) (+) SetToBag({m2})
  /\ wk = [w \in Workers |-> IdleWorker]
  /\ faults = 0

NextKeys ==
  \/ \E w \in Workers, data \in KeyMessages, blocked, storeReachable, withinGrace \in BOOLEAN,
        jitter \in Jitters :
       ProcessInstallation(w, data, blocked, storeReachable, withinGrace, jitter)
  \/ \E w \in Workers : DoProcessInstallation(w)
  \/ \E w \in Workers : FinishAttempt(w)
  \/ \E w \in Workers : Return(w)

SpecKeys == InitKeys /\ [][NextKeys]_vars

\* w receives a message in this step
Receives(w) == wk[w].pc = "idle" /\ wk'[w].pc # "idle"

\* C19: when the marker store is unreachable as the guard is called, the attempt
\* is not run and the result is E_NOT_SURE_TRY_AGAIN_LATER: no marker is set,
\* and the message is sent again with the base delay
UnreachableStoreFailsSafe ==
  [][\A w \in Workers :
       (Receives(w) /\ ~fn'.blocked /\ ~fn'.storeReachable) =>
         /\ wk'[w].pc = "returned"
         /\ wk'[w].result = "E_NOT_SURE_TRY_AGAIN_LATER"
         /\ marker' = marker
         /\ queue' = queue
         /\ wk'[w].sent = <<RETRY_DELAY_BASE_SEC>>]_vars

\* a message came while no marker was set and the store was unreachable: the
\* handler returned E_NOT_SURE_TRY_AGAIN_LATER without running the attempt
SkippedThoughMarkerClear ==
  /\ fn.op = "guard" /\ fn.w # 0 /\ ~fn.blocked /\ ~fn.storeReachable
  /\ marker = NoMarkers
  /\ wk[fn.w].pc = "returned" /\ wk[fn.w].found = 0
  /\ wk[fn.w].result = "E_NOT_SURE_TRY_AGAIN_LATER"

\* gitHubAppId || "cloud"
AppIdOrCloud(data) == IF data.gitHubAppId # 0 THEN ToString(data.gitHubAppId) ELSE "cloud"

SameInstallation(a, b) ==
  /\ a.installationId = b.installationId
  /\ a.jiraHost = b.jiraHost
  /\ AppIdOrCloud(a) = AppIdOrCloud(b)

\* C20: the message a worker receives has the key of the message another worker
\* is attempting exactly when the two have the same installation id, Jira host
\* and GitHub App id (none counting as cloud); with the store reachable and the
\* installation not blocked, the receipt is skipped if such an attempt is
\* running and acquires the marker if none is: attempts of messages that
\* differ in any of the three never block each other
KeysSeparateInstallations ==
  [][\A w \in Workers :
       Receives(w) =>
         LET data == wk'[w].data
             busy == {v \in Workers \ {w} : InAttempt(v)}
         IN /\ \A v \in busy :
                 DedupKey(wk[v].data) = DedupKey(data) <=> SameInstallation(wk[v].data, data)
            /\ (~fn'.blocked /\ fn'.storeReachable) =>
                 IF \E v \in busy : SameInstallation(wk[v].data, data)
                 THEN wk'[w].pc = "returned" /\ wk'[w].result \in SkipResults
                 ELSE /\ wk'[w].pc = "doProcessInstallation"
                      /\ DedupKey(data) \in DOMAIN marker'
                      /\ marker'[DedupKey(data)] = w]_vars

\* two attempts run at once for messages that differ in the Jira host alone
AttemptsOfTwoHostsAtOnce ==
  /\ wk[1].pc = "doProcessInstallation" /\ wk[2].pc = "doProcessInstallation"
  /\ wk[1].data.installationId = wk[2].data.installationId
  /\ wk[1].data.gitHubAppId = wk[2].data.gitHubAppId
  /\ wk[1].data.jiraHost = "h" /\ wk[2].data.jiraHost = "h-ghaid-1"

(***************************************************************************)
(* Progress writes and the marker.                                         *)
(***************************************************************************)
\* w writes to the progress store in this step: the step is w's and the
\* subscription or the rows change
WritesProgress(w) == wk'[w] # wk[w] /\ (sub' # sub \/ rows' # rows)

\* C21: every write of sync progress for a key, made by doProcessInstallation
\* or by markCurrentTaskAsFailedAndContinue, is made by the worker that holds
\* the key's marker as it writes, so that no two workers write progress for one
\* key at once
ProgressWritesUnderMarker ==
  [][\A w \in Workers :
       WritesProgress(w) => Holder(DedupKey(wk[w].data)) = w]_vars

(***************************************************************************)
(* The two writes of a page with edges.                                    *)
(***************************************************************************)
\* the status and cursor stored for the task w selected
StoredProgress(w) ==
  TaskProgress([sub |-> sub, rows |-> rows], wk[w].nextTask.task,
               wk[w].nextTask.repositoryId)

\* C24: for a result with edges the status pending and the advanced cursor are
\* stored as one merge: in no state has a worker's attempt stored the status of
\* its task while the task's cursor is not yet the cursor of the last edge
StatusAndCursorInOneMerge ==
  \A w \in Workers :
    (InAttempt(w) /\ wk[w].writes # {} /\ wk[w].edge # 0 /\ sub.exists) =>
      IF wk[w].nextTask.task = "repository"
      THEN StoredProgress(w)[2] = wk[w].edge
      ELSE \A p \in StoredProgress(w) : p[2] = wk[w].edge

(***************************************************************************)
(* The end of the backfill.                                                *)
(***************************************************************************)
\* C26: the engine sets syncStatus to COMPLETE only when the selector has no
\* task to return for the message's filter (discovery complete and no in-filter
\* category unset or pending in any row), and with it sets backfillSince to the
\* message's commitsFromDate, null when the message carries none
CompleteOnlyWhenNothingLeft ==
  [][\A w \in Workers :
       (wk'[w] # wk[w] /\ sub.syncStatus # "COMPLETE" /\ sub'.syncStatus = "COMPLETE") =>
         /\ ~(WorkLeft(wk[w].data.targetTasks))'
         /\ sub'.backfillSince = getBackfillSince(wk[w].data)]_vars

(***************************************************************************)
(* Attempts that find no subscription.                                     *)
(***************************************************************************)
\* w takes the step it is at
Steps(w) == wk'[w] # wk[w]

\* C27: an attempt that finds no subscription as it starts ends there: no task
\* is selected, no processor is called, nothing is written to the store and no
\* follow-up is requested; the handler then returns E_OK and sends no message
NoSubscriptionNoOp ==
  [][\A w \in Workers :
       /\ (wk[w].pc = "doProcessInstallation" /\ ~sub.exists /\ Steps(w)) =>
            /\ wk'[w] = [wk[w] EXCEPT !.pc = "finished"]
            /\ wk[w].nextTask = NoTask /\ wk[w].calls = 0 /\ wk[w].writes = {}
            /\ wk[w].nextTaskDelaysMs = <<>> /\ wk[w].err = "none"
            /\ sub' = sub /\ rows' = rows /\ queue' = queue
       /\ (wk[w].pc = "finished" /\ wk[w].nextTask = NoTask /\ Steps(w)) =>
            /\ wk'[w].pc = "returned" /\ wk'[w].result = "E_OK" /\ wk'[w].sent = <<>>
            /\ sub' = sub /\ rows' = rows /\ queue' = queue]_vars

\* both messages were received with no subscription in the store: the second
\* handler returned E_OK without a processor call, a write or a message sent,
\* and the queue is empty
ReturnedWithoutSubscription ==
  /\ fn.op = "guard" /\ ~sub.exists /\ rows = <<>>
  /\ queue = EmptyBag /\ marker = NoMarkers
  /\ wk[1].pc = "returned" /\ wk[1].result = "E_OK" /\ wk[1].found = 0
  /\ wk[1].calls = 0 /\ wk[1].writes = {} /\ wk[1].sent = <<>>
  /\ wk[2].pc = "idle"

\* C28: when the subscription is destroyed after the attempt selected its task
\* and before the progress update, the update writes nothing, requests no
\* follow-up and raises no error; the handler returns E_OK and sends no
\* message, so the chain of messages is not continued
DeletedBeforeUpdateEndsChain ==
  [][\A w \in Workers :
       /\ (wk[w].pc = "updateTaskStatus" /\ ~sub.exists /\ Steps(w)) =>
            /\ wk[w].nextTask.some /\ wk[w].calls = 1
            /\ wk'[w] = [wk[w] EXCEPT !.pc = "finished"]
            /\ wk[w].writes = {} /\ wk[w].nextTaskDelaysMs = <<>> /\ wk[w].err = "none"
            /\ sub' = sub /\ rows' = rows /\ queue' = queue
       /\ ( /\ wk[w].pc = "finished" /\ wk[w].calls = 1 /\ wk[w].writes = {}
            /\ wk[w].nextTaskDelaysMs = <<>> /\ wk[w].err = "none" /\ Steps(w) ) =>
            /\ wk'[w].pc = "returned" /\ wk'[w].result = "E_OK" /\ wk'[w].sent = <<>>
            /\ sub' = sub /\ rows' = rows /\ queue' = queue]_vars

\* a worker selected the commit task of a repository, the subscription was
\* destroyed while its processor ran, and the handler has returned E_OK
\* without a write or a message sent
ReturnedAfterDeletion ==
  \E w \in Workers :
    /\ ~sub.exists /\ faults = 0
    /\ wk[w].pc = "returned" /\ wk[w].result = "E_OK"
    /\ wk[w].nextTask.task = "commit" /\ wk[w].calls = 1
    /\ wk[w].writes = {} /\ wk[w].sent = <<>>

(***************************************************************************)
(* Receipts the guard skips.                                               *)
(***************************************************************************)
\* w receives a message in this step and the guard skips the attempt
Skips(w) == Receives(w) /\ wk'[w].result \in SkipResults

\* the message w received is in the queue as often as before, with one delay
\* sent for it, and the store is as it was
ResentOnceNothingWritten(w) ==
  /\ queue' = queue /\ BagIn(wk'[w].data, queue')
  /\ Len(wk'[w].sent) = 1 /\ wk'[w].sent[1] >= RETRY_DELAY_BASE_SEC
  /\ wk'[w].calls = 0 /\ wk'[w].writes = {}
  /\ sub' = sub /\ rows' = rows /\ marker' = marker

\* C29 as stated: a skipped message, whichever of the two results skipped it,
\* is sent again once with the base delay plus the random jitter of the
\* receipt, nothing being written
SkippedResentWithJitter ==
  [][\A w \in Workers :
       Skips(w) =>
         /\ ResentOnceNothingWritten(w)
         /\ wk'[w].sent = <<RETRY_DELAY_BASE_SEC + fn'.jitter>>]_vars

\* C29: a skipped message is never dropped: nothing is written and the message
\* is sent again once, with a delay of at least RETRY_DELAY_BASE_SEC seconds:
\* the base delay plus the jitter when another worker is doing the job, the
\* bare base delay when the guard is not sure
SkippedResentJitterIfOtherWorker ==
  [][\A w \in Workers :
       Skips(w) =>
         /\ ResentOnceNothingWritten(w)
         /\ wk'[w].sent = IF wk'[w].result = "E_OTHER_WORKER_DOING_THIS_JOB"
                          THEN <<RETRY_DELAY_BASE_SEC + fn'.jitter>>
                          ELSE <<RETRY_DELAY_BASE_SEC>>]_vars

\* worker 1 is in its attempt and worker 2, handed a message of the same key
\* with the largest jitter, was skipped and sent it again after 119 s; the
\* message is in the queue
SkippedAndResentWithJitter ==
  /\ fn.op = "guard" /\ fn.w = 2 /\ fn.jitter = 59
  /\ InAttempt(1) /\ Holder(DedupKey(wk[2].data)) = 1
  /\ wk[2].pc = "returned" /\ wk[2].result = "E_OTHER_WORKER_DOING_THIS_JOB"
  /\ wk[2].sent = <<RETRY_DELAY_BASE_SEC + 59>>
  /\ BagIn(wk[2].data, queue)

(***************************************************************************)
(* The engine with no failure but that of the Jira submission.             *)
(***************************************************************************)
JiraOutcomes == {"ok", "jiraError"}

\* the processor returns its page, and the submission of its Jira payload may
\* fail
ProcessorThenJira(w) ==
  \E outcome \in JiraOutcomes, rateLimitReset \in RateLimitResets, now \in Clocks :
    Processor(w, Upstream, outcome, rateLimitReset, now)

NextJira ==
  \/ \E w \in Workers, data \in EngineMessages, blocked, storeReachable, withinGrace \in BOOLEAN,
        jitter \in Jitters :
       ProcessInstallation(w, data, blocked, storeReachable, withinGrace, jitter)
  \/ \E w \in Workers : DoProcessInstallation(w)
  \/ \E w \in Workers : ProcessorThenJira(w)
  \/ \E w \in Workers : UpdateTaskStatus(w)
  \/ \E w \in Workers : UpdateCursor(w)
  \/ \E w \in Workers : Continue(w)
  \/ \E w \in Workers : FinishAttempt(w)
  \/ \E w \in Workers : Return(w)
  \/ \E w \in Workers : Redeliver(w)

SpecJira == Init /\ [][NextJira]_vars

\* the Jira submission of w's page fails in this step
JiraSubmissionFails(w) ==
  \E rateLimitReset \in RateLimitResets, now \in Clocks :
    Processor(w, Upstream, "jiraError", rateLimitReset, now)

\* C30: when the processor returned its page and the Jira submission fails, no
\* step of the attempt writes a status or a cursor (the selection before the
\* failure, the failure, the end of the attempt), no follow-up is requested and
\* none is sent, and the handler throws the error to the transport
JiraFailureRaisedNothingWritten ==
  [][\A w \in Workers :
       /\ (wk[w].pc = "doProcessInstallation" /\ Steps(w)) =>
            rows' = rows /\ ~DiscoveryChanged
       /\ JiraSubmissionFails(w) =>
            /\ sub' = sub /\ rows' = rows /\ queue' = queue
            /\ wk'[w].pc = "finished" /\ wk'[w].err = "TaskError"
            /\ wk'[w].nextTaskDelaysMs = <<>> /\ wk'[w].writes = {}
       /\ (wk[w].pc = "finished" /\ wk[w].err # "none" /\ Steps(w)) =>
            /\ wk'[w].pc = "thrown" /\ wk'[w].sent = <<>>
            /\ sub' = sub /\ rows' = rows /\ queue' = queue]_vars

\* the second page of commits was fetched and its Jira submission failed: the
\* handler threw, the commit task is pending at the cursor of the first page
\* as before, and nothing was sent
ThrownAfterJiraFailure ==
  \E w \in Workers :
    /\ wk[w].pc = "thrown" /\ wk[w].err = "TaskError" /\ faults = 1
    /\ wk[w].calls = 1 /\ wk[w].writes = {} /\ wk[w].sent = <<>>
    /\ wk[w].nextTask.task = "commit" /\ wk[w].nextTask.cursor = 1
    /\ \E i \in DOMAIN rows :
         /\ rows[i].repoId = wk[w].nextTask.repositoryId
         /\ rows[i]["commitStatus"] = "pending" /\ rows[i]["commitCursor"] = 1

(***************************************************************************)
(* The follow-ups one attempt requests.                                    *)
(***************************************************************************)
\* C31: in one execution of doProcessInstallation, whichever way it ends,
\* scheduleNextTask is called at most once: the list of delays of a worker
\* never has more than one element, and neither has what the rescheduler sends
AtMostOneFollowUpRequested ==
  \A w \in Workers : Len(wk[w].nextTaskDelaysMs) <= 1 /\ Len(wk[w].sent) <= 1

\* an attempt whose processor met a rate limit has ended with its one request,
\* the delay until the reset, and no write
RateLimitRequestedOneFollowUp ==
  \E w \in Workers :
    /\ wk[w].pc = "finished" /\ wk[w].err = "none" /\ faults = 1
    /\ wk[w].calls = 1 /\ wk[w].writes = {}
    /\ wk[w].nextTaskDelaysMs = <<5000>>

(***************************************************************************)
(* Categories that are complete or failed.                                 *)
(***************************************************************************)
Closed == {"complete", "failed"}

\* w selects its task in this step
Selects(w) == wk[w].pc = "doProcessInstallation" /\ wk'[w].pc = "processor"

\* C32: the selector returns no task for a category of a repository whose
\* status is complete or failed, so the processor is handed the cursor of an
\* unset or pending category only, and no step of an attempt changes the status
\* of a complete or failed category to pending
ClosedCategoriesStayClosed ==
  [][\A w \in Workers :
       /\ Selects(w) =>
            LET nextTask == wk'[w].nextTask
            IN nextTask.task # "repository" =>
                 \A i \in findByRepoId(rows, nextTask.repositoryId) :
                   /\ rows[i][getStatusKey(nextTask.task)] \notin Closed
                   /\ nextTask.cursor = rows[i][getCursorKey(nextTask.task)]
       /\ AttemptStep(w) =>
            \A i \in DOMAIN rows \cap DOMAIN rows', t \in TaskTypes :
              rows[i][getStatusKey(t)] \in Closed => rows'[i][getStatusKey(t)] # "pending"]_vars

(***************************************************************************)
(* The chain of messages.                                                  *)
(***************************************************************************)
\* the handler of w returns in this step without an error, the installation not
\* being blocked: the attempt was run or the guard skipped it
ReturnsWithoutError(w) ==
  /\ wk[w].pc # "returned" /\ wk'[w].pc = "returned"
  /\ wk'[w].result \in {"E_OK"} \cup SkipResults

\* C33: when a handler returns without error while the subscription exists and
\* the selector still has a task for the message's filter, a message of the
\* installation is on the queue; and no handling of one message sends more
\* than one message, whatever the guard answered
ChainUnbrokenWhileWorkLeft ==
  [][\A w \in Workers :
       /\ Len(wk'[w].sent) <= 1
       /\ (ReturnsWithoutError(w) /\ sub'.exists /\ (WorkLeft(wk[w].data.targetTasks))') =>
            \E m \in BagToSet(queue') : DedupKey(m) = DedupKey(wk'[w].data)]_vars

(***************************************************************************)
(* Blocked installations.                                                  *)
(***************************************************************************)
\* C34: when the feature flag blocks the installation, the handler returns at
\* once: the marker store is left as it is, the attempt is not run, nothing is
\* written to the progress store and no message is sent (the message received
\* is consumed)
BlockedDoesNothing ==
  [][\A w \in Workers :
       (Receives(w) /\ fn'.blocked) =>
         /\ wk'[w].pc = "returned" /\ wk'[w].result = "blocked"
         /\ marker' = marker
         /\ wk'[w].nextTask = NoTask /\ wk'[w].calls = 0 /\ wk'[w].writes = {}
         /\ sub' = sub /\ rows' = rows
         /\ wk'[w].sent = <<>>
         /\ queue' = queue (-) SetToBag({wk'[w].data})]_vars

\* worker 1 is in its attempt and worker 2 received a message of a blocked
\* installation: it returned, the only marker is worker 1's, and nothing was
\* sent
BlockedWhileOtherInAttempt ==
  /\ fn.op = "guard" /\ fn.w = 2 /\ fn.blocked
  /\ wk[1].pc = "doProcessInstallation" /\ Holder(DedupKey(wk[1].data)) = 1
  /\ wk[2].pc = "returned" /\ wk[2].result = "blocked" /\ wk[2].sent = <<>>
  /\ DOMAIN marker = {DedupKey(wk[1].data)}
  /\ queue = EmptyBag

====
